---- MODULE Spec2Model ----
(***************************************************************************)
(* The stock / ledger reconciliation core of the point-of-sale             *)
(* application: the application state container (AppContext, kept in       *)
(* src/unnamed/part_006) and the data-access adapter (the `api` object of  *)
(* src/services/geminiService.ts) acting on the remote store.              *)
(*                                                                         *)
(* state[c]  the in-memory AppState of client c (React state)              *)
(* db        the remote tables                                             *)
(* calls[c]  the adapter calls of client c that have not settled, each at  *)
(*           the await it has reached                                      *)
(*                                                                         *)
(* Abstractions: services, price overrides, users/roles, activities and    *)
(* timestamps are left out; a product's batches are kept in one flat       *)
(* sequence (productId on each batch); dates are small integers, 0 = no    *)
(* date; every group of awaits named by one step below runs atomically.    *)
(***************************************************************************)
EXTENDS Integers, Sequences, FiniteSets, TLC

VARIABLES
    state,     \* state[c]: AppState of client c
    db,        \* the remote tables
    calls,     \* calls[c]: the adapter calls of c in flight
    ret,       \* what the action of the last step returned (NoRet: not an action call)
    opCount,   \* adapter calls issued so far
    failed     \* some adapter call has thrown

vars == <<state, db, calls, ret, opCount, failed>>

\* ------------------------------------------------------------ bounds
MaxOps == 2          \* adapter-calling user actions in one behaviour
MaxQty == 3          \* largest quantity typed into a cart line
MaxRaceOps == 3      \* adapter calls in one behaviour of two clients
MaxRaceCalls == 4    \* adapter calls in one behaviour of two clients selling and taking payments
MaxDeleteOps == 3    \* adapter calls in one behaviour of payments and deletions
MaxImportOps == 3    \* adapter calls in one behaviour with a backup and its import
MaxIdOps == 3        \* adapter calls in one behaviour of invoices of the four kinds
MaxPriceOps == 2     \* adapter calls in one behaviour of sales at set prices and their returns
MaxPayrollOps == 3   \* adapter calls in one behaviour of advances and payrolls
MaxCostStock == 4    \* units in each of the two batches of p1 bought at different unit costs
CostPrices == {2, 7} \* unit costs entered on the purchases of the two batches

\* ------------------------------------------------------------ universe
Clients == {"A", "B"}
Products == {"p1", "p2"}
Customers == {"k1", "k2"}
Suppliers == {"s1", "s2"}
Employees == {"e1"}
Staff == {"e1", "e2"}                \* the employees of the payroll runs
monthlySalary == [e \in Staff |-> IF e = "e1" THEN 2 ELSE 1]   \* employee.monthlySalary
Users == {"u1", "u2"}
none == "none"                       \* undefined / null
NoInvoice == [prefix |-> "", num |-> 0]   \* undefined / null where an invoice id goes
salePrice == [p \in Products |-> IF p = "p1" THEN 2 ELSE 3]

\* ------------------------------------------------------------ helpers
RECURSIVE SeqSum(_)
SeqSum(s) == IF s = <<>> THEN 0 ELSE Head(s) + SeqSum(Tail(s))

RECURSIVE SetSum(_)
SetSum(S) == IF S = {} THEN 0
             ELSE LET x == CHOOSE y \in S : TRUE IN x.amount + SetSum(S \ {x})

Min(a, b) == IF a < b THEN a ELSE b
Max(a, b) == IF a > b THEN a ELSE b
Range(s) == {s[i] : i \in 1..Len(s)}

\* product.batches of product p in a products value
batchesOf(products, p) == SelectSeq(products, LAMBDA b : b.productId = p)

\* batches.reduce((sum, b) => sum + b.stock, 0)
totalStock(products, p) ==
    LET bs == batchesOf(products, p) IN SeqSum([i \in 1..Len(bs) |-> bs[i].stock])

\* Array.prototype.sort with (a, b) => key(a) - key(b): ascending and stable
keyOf(b, field) == IF field = "expiryDate" THEN b.expiryDate ELSE b.purchaseDate

RECURSIVE insertSorted(_, _, _)
insertSorted(sorted, x, field) ==
    IF sorted = <<>> THEN <<x>>
    ELSE IF keyOf(Head(sorted), field) <= keyOf(x, field)
         THEN <<Head(sorted)>> \o insertSorted(Tail(sorted), x, field)
         ELSE <<x>> \o sorted

RECURSIVE sortBy(_, _)
sortBy(s, field) ==
    IF s = <<>> THEN <<>>
    ELSE insertSorted(sortBy(SubSeq(s, 1, Len(s) - 1), field), s[Len(s)], field)

\* the next id taken from the largest number of any id, whatever its prefix
generateNextIdAnyPrefix(prefix, ids) ==
    LET nums == {i.num : i \in ids}
        max == IF nums = {} THEN 0 ELSE CHOOSE n \in nums : \A m \in nums : m <= n
    IN [prefix |-> prefix, num |-> max + 1]

\* generateNextId(prefix, ids): ids are [prefix, num] for "<prefix><num>"
generateNextId(prefix, ids) ==
    LET nums == {i.num : i \in {j \in ids : j.prefix = prefix}}
        max == IF nums = {} THEN 0 ELSE CHOOSE n \in nums : \A m \in nums : m <= n
    IN [prefix |-> prefix, num |-> max + 1]

\* { ...r, [f]: v }
withField(r, f, v) == [x \in DOMAIN r \cup {f} |-> IF x = f THEN v ELSE r[x]]

\* getPrice(item): final = item.finalPrice !== undefined ? item.finalPrice : original;
\* a line carries the field finalPrice only when a price has been set for it
getPrice(item) ==
    [final |-> IF "finalPrice" \in DOMAIN item THEN item.finalPrice ELSE item.salePrice,
     original |-> item.salePrice]
cartSubtotal(cart) == SeqSum([i \in 1..Len(cart) |-> getPrice(cart[i]).original * cart[i].quantity])
cartTotal(cart) == SeqSum([i \in 1..Len(cart) |-> getPrice(cart[i]).final * cart[i].quantity])

findInvoice(invoices, id) == CHOOSE i \in invoices : i.id = id
hasInvoice(invoices, id) == \E i \in invoices : i.id = id

\* ------------------------------------------------------------ Number arithmetic
\* JavaScript numbers are IEEE 754 binary64 values. A positive value is written
\* [sig, exp]: sig its Precision significant binary digits, the first of them 1,
\* and exp the weight of the last digit, so that the value is sig x 2^exp; zero
\* is written with an empty sig. Operands of / and * below are whole numbers.
Precision == 53

\* 0 / 0
NaN == [sig |-> <<>>, exp |-> 1]

\* the binary digits of n >= 1, most significant first
RECURSIVE bitsOf(_)
bitsOf(n) == IF n < 2 THEN <<n>> ELSE Append(bitsOf(n \div 2), n % 2)

\* bits + 1
RECURSIVE increment(_)
increment(bits) ==
    IF bits = <<>> THEN <<1>>
    ELSE IF bits[Len(bits)] = 0 THEN Append(SubSeq(bits, 1, Len(bits) - 1), 1)
    ELSE Append(increment(SubSeq(bits, 1, Len(bits) - 1)), 0)

\* round to nearest, ties to even: the Number nearest to bits x 2^exp (plus a
\* fraction of the last digit when sticky); bits starts with 1
roundToNumber(bits, sticky, exp) ==
    IF Len(bits) <= Precision
    THEN [sig |-> bits \o [i \in 1..(Precision - Len(bits)) |-> 0],
          exp |-> exp - (Precision - Len(bits))]
    ELSE LET kept == SubSeq(bits, 1, Precision)
             half == bits[Precision + 1] = 1
             more == sticky \/ \E i \in (Precision + 2)..Len(bits) : bits[i] = 1
             e == exp + (Len(bits) - Precision)
             up == increment(kept)
         IN IF ~(half /\ (more \/ kept[Precision] = 1)) THEN [sig |-> kept, exp |-> e]
            ELSE IF Len(up) = Precision THEN [sig |-> up, exp |-> e]
            ELSE [sig |-> SubSeq(up, 1, Precision), exp |-> e + 1]

\* the Number of a whole number n >= 0
Number(n) == IF n = 0 THEN [sig |-> <<>>, exp |-> 0] ELSE roundToNumber(bitsOf(n), FALSE, 0)

\* the next n binary digits of rem / q after the point, 0 <= rem < q, and the
\* remainder they leave
RECURSIVE divideBits(_, _, _, _)
divideBits(rem, q, n, bits) ==
    IF n = 0 THEN [bits |-> bits, rem |-> rem]
    ELSE divideBits(IF 2 * rem >= q THEN 2 * rem - q ELSE 2 * rem, q, n - 1,
                    Append(bits, IF 2 * rem >= q THEN 1 ELSE 0))

\* the least s with a x 2^s >= q
RECURSIVE shiftOf(_, _)
shiftOf(a, q) == IF a >= q THEN 0 ELSE 1 + shiftOf(2 * a, q)

RECURSIVE pow2(_)
pow2(s) == IF s = 0 THEN 1 ELSE 2 * pow2(s - 1)

\* a / q for whole numbers a >= 0, q >= 1: the quotient by long division to one
\* digit more than a Number holds, then rounded
divide(a, q) ==
    IF a = 0 THEN (IF q = 0 THEN NaN ELSE Number(0))
    ELSE LET s == shiftOf(a, q)
             lead == bitsOf((a * pow2(s)) \div q)
             frac == divideBits((a * pow2(s)) % q, q, Precision + 1 - Len(lead), <<>>)
         IN roundToNumber(lead \o frac.bits, frac.rem # 0, -s - Len(frac.bits))

\* bits x q + carry, digit by digit from the last
RECURSIVE multiplyBits(_, _, _, _)
multiplyBits(bits, q, carry, product) ==
    IF bits = <<>> THEN (IF carry = 0 THEN product ELSE bitsOf(carry) \o product)
    ELSE multiplyBits(SubSeq(bits, 1, Len(bits) - 1), q,
                      (bits[Len(bits)] * q + carry) \div 2,
                      <<(bits[Len(bits)] * q + carry) % 2>> \o product)

\* x * q for a Number x >= 0 and a whole number q >= 0
multiply(x, q) ==
    IF x = NaN THEN NaN
    ELSE IF x.sig = <<>> \/ q = 0 THEN Number(0)
    ELSE roundToNumber(multiplyBits(x.sig, q, 0, <<>>), FALSE, x.exp)

\* ------------------------------------------------------------ stock deduction
\* completeSale: deductionOrder = [...batchesWithExpiry, ...batchesWithoutExpiry]
deductionOrder(products, p) ==
    LET bs == batchesOf(products, p)
        batchesWithExpiry ==
            sortBy(SelectSeq(bs, LAMBDA b : b.expiryDate # 0 /\ b.stock > 0), "expiryDate")
        batchesWithoutExpiry ==
            sortBy(SelectSeq(bs, LAMBDA b : b.expiryDate = 0 /\ b.stock > 0), "purchaseDate")
    IN batchesWithExpiry \o batchesWithoutExpiry

\* completeSale: for (const batch of deductionOrder) { ... }
RECURSIVE deductLoop(_, _, _)
deductLoop(order, quantityToDeduct, stockUpdates) ==
    IF order = <<>> \/ quantityToDeduct <= 0
    THEN [quantityToDeduct |-> quantityToDeduct, stockUpdates |-> stockUpdates]
    ELSE LET batch == Head(order)
             deductAmount == Min(quantityToDeduct, batch.stock)
         IN deductLoop(Tail(order), quantityToDeduct - deductAmount,
                       Append(stockUpdates,
                              [batchId |-> batch.id, newStock |-> batch.stock - deductAmount]))

\* batch.stock -= deductAmount on the deep copy updatedProducts
setStocks(products, stockUpdates) ==
    [i \in 1..Len(products) |->
        LET us == SelectSeq(stockUpdates, LAMBDA u : u.batchId = products[i].id)
        IN IF us = <<>> THEN products[i]
           ELSE [products[i] EXCEPT !.stock = us[Len(us)].newStock]]

\* completeSale: for (const item of cart) { ... }
RECURSIVE prepareSale(_, _, _)
prepareSale(cart, updatedProducts, stockUpdates) ==
    IF cart = <<>>
    THEN [ok |-> TRUE, updatedProducts |-> updatedProducts, stockUpdates |-> stockUpdates]
    ELSE LET item == Head(cart)
             d == deductLoop(deductionOrder(updatedProducts, item.id), item.quantity, <<>>)
         IN IF d.quantityToDeduct > 0
            THEN [ok |-> FALSE, updatedProducts |-> updatedProducts,
                  stockUpdates |-> stockUpdates]
            ELSE prepareSale(Tail(cart), setStocks(updatedProducts, d.stockUpdates),
                             stockUpdates \o d.stockUpdates)

\* completeSale: totalPurchaseValue += deductAmount * batch.purchasePrice
RECURSIVE totalPurchaseValue(_, _)
totalPurchaseValue(order, quantityToDeduct) ==
    IF order = <<>> \/ quantityToDeduct <= 0 THEN 0
    ELSE LET deductAmount == Min(quantityToDeduct, Head(order).stock)
         IN deductAmount * Head(order).purchasePrice
            + totalPurchaseValue(Tail(order), quantityToDeduct - deductAmount)

\* completeSale: purchasePrice: totalPurchaseValue / item.quantity
unitCost(order, item) == divide(totalPurchaseValue(order, item.quantity), item.quantity)

\* completeSale: saleItemsWithPurchasePrice, of a cart that prepareSale accepts
RECURSIVE saleItemsWithPurchasePrice(_, _)
saleItemsWithPurchasePrice(cart, updatedProducts) ==
    IF cart = <<>> THEN <<>>
    ELSE LET item == Head(cart)
             order == deductionOrder(updatedProducts, item.id)
         IN <<[item EXCEPT !.purchasePrice = unitCost(order, item)]>>
            \o saleItemsWithPurchasePrice(
                   Tail(cart),
                   setStocks(updatedProducts,
                             deductLoop(order, item.quantity, <<>>).stockUpdates))

stockOf(products, batchId) ==
    LET bs == SelectSeq(products, LAMBDA b : b.id = batchId)
    IN IF bs = <<>> THEN 0 ELSE bs[1].stock

\* ------------------------------------------------------------ row <-> entity mapping
\* mapProduct: product_batches rows -> ProductBatch
mapProduct(rows) ==
    [i \in 1..Len(rows) |->
        [id |-> rows[i].id, productId |-> rows[i].product_id,
         lotNumber |-> rows[i].lot_number, stock |-> rows[i].stock,
         purchasePrice |-> rows[i].purchase_price,
         purchaseDate |-> rows[i].purchase_date, expiryDate |-> rows[i].expiry_date]]

\* mapSaleInvoice: sale_invoices row with its sale_invoice_items -> SaleInvoice
mapSaleInvoice(row) ==
    [id |-> row.id, type |-> row.type, originalInvoiceId |-> row.original_invoice_id,
     subtotal |-> row.subtotal, totalDiscount |-> row.total_discount,
     totalAmount |-> row.total_amount, customerId |-> row.customer_id,
     items |-> [i \in 1..Len(row.items) |->
                  LET item == [id |-> row.items[i].item_id,
                               quantity |-> row.items[i].quantity,
                               salePrice |-> row.items[i].price,
                               purchasePrice |-> row.items[i].purchase_price]
                  IN IF "final_price" \in DOMAIN row.items[i]
                     THEN withField(item, "finalPrice", row.items[i].final_price)
                     ELSE item]]

\* createSale / updateSale / createSaleReturn: itemsData. final_price is
\* finalPrice when the line has one and salePrice otherwise; a row without the
\* field final_price stands for a row whose final_price is its price, which
\* getPrice reads as the same price
saleItemsData(items) ==
    [i \in 1..Len(items) |->
        LET row == [item_id |-> items[i].id, quantity |-> items[i].quantity,
                    price |-> items[i].salePrice,
                    purchase_price |-> items[i].purchasePrice]
        IN IF "finalPrice" \in DOMAIN items[i]
           THEN withField(row, "final_price", items[i].finalPrice)
           ELSE row]

\* createSaleReturn: itemsData, with final_price: 0 on every row
saleReturnItemsData(items) ==
    [i \in 1..Len(items) |->
        [item_id |-> items[i].id, quantity |-> items[i].quantity,
         price |-> items[i].salePrice, purchase_price |-> items[i].purchasePrice,
         final_price |-> 0]]

\* createSale: the sale_invoices row of an invoice (items are inserted after it)
saleInvoiceRow(invoice, items) ==
    [id |-> invoice.id, type |-> invoice.type,
     original_invoice_id |-> invoice.originalInvoiceId,
     subtotal |-> invoice.subtotal, total_discount |-> invoice.totalDiscount,
     total_amount |-> invoice.totalAmount, customer_id |-> invoice.customerId,
     items |-> items]

\* getTransactions: customer_transactions rows -> CustomerTransaction
mapCustomerTransaction(t) ==
    [id |-> t.id, customerId |-> t.customer_id, type |-> t.type,
     amount |-> t.amount, invoiceId |-> t.invoice_id]

customerTransactionRow(t) ==
    [id |-> t.id, customer_id |-> t.customerId, type |-> t.type,
     amount |-> t.amount, invoice_id |-> t.invoiceId]

\* mapPurchaseInvoice: purchase_invoices row with its purchase_invoice_items
mapPurchaseInvoice(row) ==
    [id |-> row.id, type |-> row.type, originalInvoiceId |-> row.original_invoice_id,
     supplierId |-> row.supplier_id, totalAmount |-> row.total_amount,
     currency |-> row.currency, exchangeRate |-> row.exchange_rate,
     items |-> [i \in 1..Len(row.items) |->
                  [productId |-> row.items[i].product_id,
                   quantity |-> row.items[i].quantity,
                   purchasePrice |-> row.items[i].purchase_price,
                   lotNumber |-> row.items[i].lot_number,
                   expiryDate |-> row.items[i].expiry_date]]]

\* createPurchase / updatePurchase / createPurchaseReturn: itemsData
purchaseItemsData(items) ==
    [i \in 1..Len(items) |->
        [product_id |-> items[i].productId, quantity |-> items[i].quantity,
         purchase_price |-> items[i].purchasePrice, lot_number |-> items[i].lotNumber,
         expiry_date |-> items[i].expiryDate]]

\* getTransactions: supplier_transactions rows -> SupplierTransaction
mapSupplierTransaction(t) ==
    [id |-> t.id, supplierId |-> t.supplier_id, type |-> t.type, amount |-> t.amount,
     invoiceId |-> t.invoice_id, currency |-> t.currency]

supplierTransactionRow(t) ==
    [id |-> t.id, supplier_id |-> t.supplierId, type |-> t.type, amount |-> t.amount,
     invoice_id |-> t.invoiceId, currency |-> t.currency]

\* getTransactions: payroll_transactions rows -> PayrollTransaction
mapPayrollTransaction(t) ==
    [id |-> t.id, employeeId |-> t.employee_id, type |-> t.type, amount |-> t.amount]

payrollTransactionRow(t) ==
    [id |-> t.id, employee_id |-> t.employeeId, type |-> t.type, amount |-> t.amount]

\* the setState at the end of a successful load, from the tables d
loaded(prev, d) ==
    [prev EXCEPT
        !.products = mapProduct(SelectSeq(d.product_batches,
                                          LAMBDA b : b.product_id \in d.products)),
        !.saleInvoices = {mapSaleInvoice(r) : r \in d.sale_invoices},
        !.purchaseInvoices = {mapPurchaseInvoice(r) : r \in d.purchase_invoices},
        !.customers = d.customers,
        !.suppliers = d.suppliers,
        !.customerTransactions =
            {mapCustomerTransaction(t) : t \in d.customer_transactions},
        !.supplierTransactions =
            {mapSupplierTransaction(t) : t \in d.supplier_transactions},
        !.employees = d.employees,
        !.payrollTransactions =
            {mapPayrollTransaction(t) : t \in d.payroll_transactions},
        !.expenses = d.expenses,
        !.users = d.users]

\* fetchData (the nine reads are taken as one snapshot)
fetchData(prev) == loaded(prev, db)

\* ------------------------------------------------------------ initial state
F1 == [prefix |-> "F", num |-> 1]
P1 == [prefix |-> "P", num |-> 1]

InitBatches ==
    << [id |-> 1, product_id |-> "p1", lot_number |-> "L1", stock |-> 2,
        purchase_price |-> 1, purchase_date |-> 1, expiry_date |-> 2],
       [id |-> 2, product_id |-> "p1", lot_number |-> "L2", stock |-> 1,
        purchase_price |-> 2, purchase_date |-> 2, expiry_date |-> 0],
       [id |-> 3, product_id |-> "p2", lot_number |-> "L1", stock |-> 1,
        purchase_price |-> 2, purchase_date |-> 1, expiry_date |-> 0] >>

\* the store after the purchase P1 of three units of p1 (lot L1) from s1 and one
\* sale F1 of one unit of p1, cash (k = none) or on credit to customer k
InitDb(k) ==
    [products |-> Products,
     product_batches |-> InitBatches,
     sale_invoices |->
        {[id |-> F1, type |-> "sale", original_invoice_id |-> NoInvoice,
          subtotal |-> 2, total_discount |-> 0, total_amount |-> 2, customer_id |-> k,
          items |-> <<[item_id |-> "p1", quantity |-> 1, price |-> 2,
                       purchase_price |-> Number(1)]>>]},
     purchase_invoices |->
        {[id |-> P1, type |-> "purchase", original_invoice_id |-> NoInvoice,
          supplier_id |-> "s1", total_amount |-> 3, currency |-> "AFN",
          exchange_rate |-> 1,
          items |-> <<[product_id |-> "p1", quantity |-> 3, purchase_price |-> 1,
                       lot_number |-> "L1", expiry_date |-> 2]>>]},
     customers |-> [x \in Customers |-> IF x = k THEN 2 ELSE 0],
     suppliers |-> [x \in Suppliers |-> IF x = "s1" THEN 3 ELSE 0],
     supplier_transactions |->
        {[id |-> 0, supplier_id |-> "s1", type |-> "purchase", amount |-> 3,
          invoice_id |-> P1, currency |-> "AFN"]},
     customer_transactions |->
        IF k = none THEN {}
        ELSE {[id |-> 0, customer_id |-> k, type |-> "credit_sale", amount |-> 2,
               invoice_id |-> F1]},
     employees |-> [x \in Employees |-> 0],
     payroll_transactions |-> {},
     expenses |-> {},
     users |-> {"u1"}]

\* getDefaultState; backupFile is not a field of AppState: it holds the document
\* that exportData last downloaded to the disk of the client
getDefaultState ==
    [products |-> <<>>, saleInvoices |-> {}, purchaseInvoices |-> {},
     customers |-> [x \in Customers |-> 0], suppliers |-> [x \in Suppliers |-> 0],
     employees |-> [x \in Employees |-> 0], payrollTransactions |-> {},
     expenses |-> {}, users |-> {}, backupFile |-> {},
     cart |-> <<>>, customerTransactions |-> {}, supplierTransactions |-> {},
     editingSaleInvoiceId |-> NoInvoice, editingPurchaseInvoiceId |-> NoInvoice]

NoRet == [op |-> "none", client |-> none, success |-> TRUE, message |-> ""]

\* AppProvider mounted and the first fetchData finished, on every client
InitWith(d) ==
    /\ db = d
    /\ state = [c \in Clients |-> loaded(getDefaultState, d)]
    /\ calls = [c \in Clients |-> {}]
    /\ ret = NoRet
    /\ opCount = 0
    /\ failed = FALSE

Init == \E k \in {none, "k1"} : InitWith(InitDb(k))

\* the same store with p1 bought as n1 + 1 units at unit cost c1 (P1, lot L1, one
\* unit sold on F1) and n2 units at unit cost c2 (lot L2)
InitCostDb(n1, c1, n2, c2) ==
    [InitDb(none) EXCEPT
        !.product_batches =
            [i \in 1..Len(InitBatches) |->
                IF i = 1 THEN [InitBatches[1] EXCEPT !.stock = n1, !.purchase_price = c1]
                ELSE IF i = 2
                THEN [InitBatches[2] EXCEPT !.stock = n2, !.purchase_price = c2]
                ELSE InitBatches[i]],
        !.sale_invoices =
            {[r EXCEPT !.items = <<[@[1] EXCEPT !.purchase_price = Number(c1)]>>] : r \in @},
        !.purchase_invoices =
            {[r EXCEPT !.total_amount = (n1 + 1) * c1,
                       !.items = <<[@[1] EXCEPT !.quantity = n1 + 1,
                                                !.purchase_price = c1]>>] : r \in @},
        !.suppliers = [@ EXCEPT !["s1"] = (n1 + 1) * c1],
        !.supplier_transactions = {[t EXCEPT !.amount = (n1 + 1) * c1] : t \in @}]

\* the same store with the employees of Staff, nothing drawn yet
InitPayroll == InitWith([InitDb(none) EXCEPT !.employees = [e \in Staff |-> 0]])

InitCost ==
    \E n1 \in 1..MaxCostStock, n2 \in 1..MaxCostStock, c1 \in CostPrices, c2 \in CostPrices :
        InitWith(InitCostDb(n1, c1, n2, c2))

\* the page is loaded again: AppProvider mounts with getDefaultState and its
\* effect runs fetchData
Reload(c) ==
    /\ state' = [state EXCEPT ![c] = [fetchData(getDefaultState) EXCEPT
                                         !.backupFile = state[c].backupFile]]
    /\ state'[c] # state[c]
    /\ ret' = NoRet
    /\ UNCHANGED <<db, calls, opCount, failed>>

\* ------------------------------------------------------------ cart (local only)
Return(op, c, success, message) ==
    ret' = [op |-> op, client |-> c, success |-> success, message |-> message]

\* addToCart(itemToAdd, 'product')
AddToCart(c, p) ==
    LET prev == state[c]
        found == {i \in 1..Len(prev.cart) : prev.cart[i].id = p}
        totalStockOfItem == totalStock(prev.products, p)
    IN /\ UNCHANGED <<db, calls, opCount, failed>>
       /\ IF found # {}
          THEN LET existingItemIndex == CHOOSE i \in found : \A j \in found : i <= j
                   existingItem == prev.cart[existingItemIndex]
               IN IF existingItem.quantity >= totalStockOfItem
                  THEN /\ Return("addToCart", c, FALSE, "max stock in cart")
                       /\ UNCHANGED state
                  ELSE /\ Return("addToCart", c, TRUE, "")
                       /\ state' = [state EXCEPT ![c].cart[existingItemIndex].quantity =
                                                    existingItem.quantity + 1]
          ELSE IF totalStockOfItem < 1
               THEN /\ Return("addToCart", c, FALSE, "out of stock")
                    /\ UNCHANGED state
               ELSE /\ Return("addToCart", c, TRUE, "")
                    /\ state' = [state EXCEPT ![c].cart =
                                    Append(prev.cart, [id |-> p, quantity |-> 1,
                                                       salePrice |-> salePrice[p],
                                                       purchasePrice |-> Number(0)])]

\* updateCartItemQuantity(itemId, 'product', newQuantity), newQuantity >= 0
UpdateCartItemQuantity(c, p, newQuantity) ==
    LET prev == state[c]
        found == {i \in 1..Len(prev.cart) : prev.cart[i].id = p}
        totalStockInState == totalStock(prev.products, p)
    IN /\ UNCHANGED <<db, calls, opCount, failed>>
       /\ IF found = {}
          THEN Return("updateCartItemQuantity", c, TRUE, "") /\ UNCHANGED state
          ELSE LET itemIndex == CHOOSE i \in found : \A j \in found : i <= j
               IN IF newQuantity > totalStockInState
                  THEN /\ Return("updateCartItemQuantity", c, TRUE, "only totalStock left")
                       /\ state' = [state EXCEPT ![c].cart[itemIndex].quantity =
                                                    totalStockInState]
                  ELSE /\ Return("updateCartItemQuantity", c, TRUE, "")
                       /\ state' = [state EXCEPT ![c].cart =
                              IF newQuantity = 0
                              THEN SelectSeq(prev.cart, LAMBDA i : i.id # p)
                              ELSE [prev.cart EXCEPT ![itemIndex].quantity = newQuantity]]

\* updateCartItemFinalPrice(itemId, 'product', finalPrice)
UpdateCartItemFinalPrice(c, p, finalPrice) ==
    /\ state' = [state EXCEPT ![c].cart =
                    [i \in 1..Len(@) |->
                        IF @[i].id = p THEN withField(@[i], "finalPrice", finalPrice)
                        ELSE @[i]]]
    /\ Return("updateCartItemFinalPrice", c, TRUE, "")
    /\ UNCHANGED <<db, calls, opCount, failed>>

\* removeFromCart(itemId, 'product')
RemoveFromCart(c, p) ==
    /\ state' = [state EXCEPT ![c].cart = SelectSeq(state[c].cart, LAMBDA i : i.id # p)]
    /\ Return("removeFromCart", c, TRUE, "")
    /\ UNCHANGED <<db, calls, opCount, failed>>

\* beginEditSale(invoiceId)
BeginEditSale(c, invoiceId) ==
    /\ UNCHANGED <<db, calls, opCount, failed>>
    /\ IF ~hasInvoice(state[c].saleInvoices, invoiceId)
       THEN Return("beginEditSale", c, FALSE, "invoice not found") /\ UNCHANGED state
       ELSE /\ state' = [state EXCEPT
                           ![c].editingSaleInvoiceId = invoiceId,
                           ![c].cart = findInvoice(state[c].saleInvoices, invoiceId).items]
            /\ Return("beginEditSale", c, TRUE, "")

\* cancelEditSale clearing the editing id and leaving the cart as it is
CancelEditSaleKeepsCart(c) ==
    /\ state' = [state EXCEPT ![c].editingSaleInvoiceId = NoInvoice]
    /\ Return("cancelEditSale", c, TRUE, "")
    /\ UNCHANGED <<db, calls, opCount, failed>>

\* cancelEditSale()
CancelEditSale(c) ==
    /\ state' = [state EXCEPT ![c].editingSaleInvoiceId = NoInvoice, ![c].cart = <<>>]
    /\ Return("cancelEditSale", c, TRUE, "")
    /\ UNCHANGED <<db, calls, opCount, failed>>

\* ------------------------------------------------------------ completeSale
\* what client c and the store hold when an action is invoked (kept with the call)
snapshot(c) == [state |-> state[c], db |-> db]

settle(c, k) == calls' = [calls EXCEPT ![c] = calls[c] \ {k}]
advance(c, k, pc) == calls' = [calls EXCEPT ![c] = (calls[c] \ {k}) \cup {[k EXCEPT !.pc = pc]}]

\* completeSale(cashier, customerId)
CompleteSale(c, customerId) ==
    LET cart == state[c].cart
        products == state[c].products
        editingSaleInvoiceId == state[c].editingSaleInvoiceId
        customers == state[c].customers
        saleInvoices == state[c].saleInvoices
        newSubtotal == cartSubtotal(cart)
        newTotalAmount == cartTotal(cart)
        prep == prepareSale(cart, products, <<>>)
        stockUpdates == prep.stockUpdates
        invoiceId == IF editingSaleInvoiceId # NoInvoice THEN editingSaleInvoiceId
                     ELSE generateNextId("F", {i.id : i \in saleInvoices})
        finalInvoice == [id |-> invoiceId, type |-> "sale", originalInvoiceId |-> NoInvoice,
                         items |-> saleItemsWithPurchasePrice(cart, products),
                         subtotal |-> newSubtotal,
                         totalAmount |-> newTotalAmount,
                         totalDiscount |-> newSubtotal - newTotalAmount,
                         customerId |-> customerId]
        customerUpdate ==
            IF customerId # none
            THEN <<[id |-> customerId,
                    newBalance |-> customers[customerId] + finalInvoice.totalAmount,
                    transaction |-> [id |-> opCount + 1, customerId |-> customerId,
                                     type |-> "credit_sale",
                                     amount |-> finalInvoice.totalAmount,
                                     invoiceId |-> finalInvoice.id]]>>
            ELSE <<>>
    IN IF cart = <<>>
       THEN /\ Return("completeSale", c, FALSE, "cart is empty")
            /\ UNCHANGED <<state, db, calls, opCount, failed>>
       ELSE IF ~prep.ok
       THEN /\ Return("completeSale", c, FALSE, "insufficient stock")
            /\ UNCHANGED <<state, db, calls, opCount, failed>>
       ELSE IF editingSaleInvoiceId # NoInvoice
       THEN \* --- EDIT MODE ---
            /\ hasInvoice(saleInvoices, editingSaleInvoiceId)
            /\ LET oldInvoice == findInvoice(saleInvoices, editingSaleInvoiceId)
                   stockRestores ==
                       [i \in 1..Len(oldInvoice.items) |->
                           [productId |-> oldInvoice.items[i].id,
                            quantity |-> oldInvoice.items[i].quantity]]
                   stockDeductions ==
                       [i \in 1..Len(stockUpdates) |->
                           [batchId |-> stockUpdates[i].batchId,
                            quantity |-> stockOf(products, stockUpdates[i].batchId)
                                         - stockUpdates[i].newStock]]
                   custUpdateParams ==
                       IF customerId # none /\ oldInvoice.customerId = customerId
                       THEN <<[id |-> customerId, oldAmount |-> oldInvoice.totalAmount,
                               newAmount |-> finalInvoice.totalAmount]>>
                       ELSE IF customerId # none
                       THEN <<[id |-> customerId, oldAmount |-> 0,
                               newAmount |-> finalInvoice.totalAmount]>>
                       ELSE <<>>
               IN calls' = [calls EXCEPT ![c] = calls[c] \cup
                              {[id |-> opCount + 1, before |-> snapshot(c), kind |-> "updateSale", pc |-> "restore",
                                i |-> 1, invoiceId |-> invoiceId,
                                newInvoiceData |-> finalInvoice,
                                stockRestores |-> stockRestores,
                                stockDeductions |-> stockDeductions,
                                customerUpdate |-> custUpdateParams]}]
            /\ state' = [state EXCEPT ![c].editingSaleInvoiceId = NoInvoice,
                                      ![c].cart = <<>>]
            /\ opCount' = opCount + 1
            /\ Return("completeSale", c, TRUE, "edit")
            /\ UNCHANGED <<db, failed>>
       ELSE \* --- CREATE MODE ---
            /\ calls' = [calls EXCEPT ![c] = calls[c] \cup
                           {[id |-> opCount + 1, before |-> snapshot(c), kind |-> "createSale", pc |-> "header",
                             invoice |-> finalInvoice, stockUpdates |-> stockUpdates,
                             customerUpdate |-> customerUpdate,
                             updatedProducts |-> prep.updatedProducts]}]
            /\ opCount' = opCount + 1
            /\ Return("completeSale", c, TRUE, "create")
            /\ UNCHANGED <<state, db, failed>>

\* ------------------------------------------------------------ api.createSale
\* 1. invoice header, 2. invoice items: both inserted
CreateSaleInsert(c, k) ==
    /\ k.kind = "createSale" /\ k.pc = "header"
    /\ ~hasInvoice(db.sale_invoices, k.invoice.id)
    /\ db' = [db EXCEPT !.sale_invoices =
                @ \cup {saleInvoiceRow(k.invoice, saleItemsData(k.invoice.items))}]
    /\ advance(c, k, "stock")
    /\ ret' = NoRet
    /\ UNCHANGED <<state, opCount, failed>>

\* 1. invoice header inserted; the insert of the items that follows returns an
\* error
CreateSaleHeaderOnly(c, k) ==
    /\ k.kind = "createSale" /\ k.pc = "header"
    /\ ~hasInvoice(db.sale_invoices, k.invoice.id)
    /\ db' = [db EXCEPT !.sale_invoices = @ \cup {saleInvoiceRow(k.invoice, <<>>)}]
    /\ advance(c, k, "items")
    /\ ret' = NoRet
    /\ UNCHANGED <<state, opCount, failed>>

\* the throw of createSale that also deletes the header row it has inserted
CreateSaleFailsRollback(c, k) ==
    /\ k.kind = "createSale" /\ k.pc \in {"header", "items"}
    /\ db' = [db EXCEPT !.sale_invoices = {r \in @ : r.id # k.invoice.id}]
    /\ settle(c, k)
    /\ failed' = TRUE
    /\ ret' = NoRet
    /\ UNCHANGED <<state, opCount>>

\* 1. if (iError) throw iError; 2. if (itemError) throw itemError; completeSale's
\* catch shows a toast
CreateSaleFails(c, k) ==
    /\ k.kind = "createSale" /\ k.pc \in {"header", "items"}
    /\ settle(c, k)
    /\ failed' = TRUE
    /\ ret' = NoRet
    /\ UNCHANGED <<state, db, opCount>>

\* update({ stock: update.newStock }).eq('id', update.batchId)
writeStocks(rows, stockUpdates) ==
    [i \in 1..Len(rows) |->
        LET us == SelectSeq(stockUpdates, LAMBDA u : u.batchId = rows[i].id)
        IN IF us = <<>> THEN rows[i] ELSE [rows[i] EXCEPT !.stock = us[Len(us)].newStock]]

\* createSale's stock step with the client mirroring the new stocks at once,
\* before the call has resolved
CreateSaleStockEager(c, k) ==
    /\ k.kind = "createSale" /\ k.pc = "stock"
    /\ db' = [db EXCEPT !.product_batches = writeStocks(@, k.stockUpdates)]
    /\ state' = [state EXCEPT ![c].products = k.updatedProducts]
    /\ advance(c, k, IF k.customerUpdate = <<>> THEN "then" ELSE "customer")
    /\ ret' = NoRet
    /\ UNCHANGED <<opCount, failed>>

\* createSale's stock step re-reading each batch and taking the sold quantity off
\* the stock it reads
CreateSaleStockReread(c, k) ==
    /\ k.kind = "createSale" /\ k.pc = "stock"
    /\ db' = [db EXCEPT !.product_batches =
                [j \in 1..Len(@) |->
                    LET us == SelectSeq(k.stockUpdates, LAMBDA u : u.batchId = @[j].id)
                    IN IF us = <<>> THEN @[j]
                       ELSE [@[j] EXCEPT !.stock =
                               @ - (stockOf(k.before.state.products, us[1].batchId)
                                    - us[Len(us)].newStock)]]]
    /\ advance(c, k, IF k.customerUpdate = <<>> THEN "then" ELSE "customer")
    /\ ret' = NoRet
    /\ UNCHANGED <<state, opCount, failed>>

\* 3. update stock
CreateSaleStock(c, k) ==
    /\ k.kind = "createSale" /\ k.pc = "stock"
    /\ db' = [db EXCEPT !.product_batches = writeStocks(@, k.stockUpdates)]
    /\ advance(c, k, IF k.customerUpdate = <<>> THEN "then" ELSE "customer")
    /\ ret' = NoRet
    /\ UNCHANGED <<state, opCount, failed>>

\* 4. update customer: balance, then the ledger row
CreateSaleCustomer(c, k) ==
    /\ k.kind = "createSale" /\ k.pc = "customer"
    /\ LET u == k.customerUpdate[1]
       IN db' = [db EXCEPT !.customers[u.id] = u.newBalance,
                           !.customer_transactions =
                               @ \cup {customerTransactionRow(u.transaction)}]
    /\ advance(c, k, "then")
    /\ ret' = NoRet
    /\ UNCHANGED <<state, opCount, failed>>

\* 4. update customer: the balance is written, the insert of the ledger row
\* returns an error, which createSale does not look at
CreateSaleLedgerFails(c, k) ==
    /\ k.kind = "createSale" /\ k.pc = "customer"
    /\ LET u == k.customerUpdate[1]
       IN db' = [db EXCEPT !.customers[u.id] = u.newBalance]
    /\ advance(c, k, "then")
    /\ failed' = TRUE
    /\ ret' = NoRet
    /\ UNCHANGED <<state, opCount>>

\* completeSale: api.createSale(...).then(() => setState(prev => ...))
CreateSaleThen(c, k) ==
    /\ k.kind = "createSale" /\ k.pc = "then"
    /\ LET prev == state[c]
           customerId == k.invoice.customerId
       IN state' = [state EXCEPT ![c] =
            [prev EXCEPT
               !.saleInvoices = @ \cup {k.invoice},
               !.products = k.updatedProducts,
               !.customers = IF customerId # none
                             THEN [@ EXCEPT ![customerId] = @ + k.invoice.totalAmount]
                             ELSE @,
               !.customerTransactions = IF customerId # none
                                        THEN @ \cup {k.customerUpdate[1].transaction}
                                        ELSE @,
               !.cart = <<>>]]
    /\ settle(c, k)
    /\ ret' = NoRet
    /\ UNCHANGED <<db, opCount, failed>>

\* ------------------------------------------------------------ api.updateSale
\* a restore that adds the quantity to every batch of the product of row j
restoreStockAll(rows, j, quantity) ==
    [i \in 1..Len(rows) |->
        IF rows[i].product_id = rows[j].product_id
        THEN [rows[i] EXCEPT !.stock = @ + quantity] ELSE rows[i]]

\* select('*').eq('product_id', p).limit(1), then stock + quantity on that row.
\* No order is given with limit(1): any row of the product may be the one returned.
restoreStock(rows, j, quantity) == [rows EXCEPT ![j].stock = @ + quantity]
rowsOfProduct(rows, p) == {j \in 1..Len(rows) : rows[j].product_id = p}

\* 1. restore stock (revert), one restore per step
UpdateSaleRestore(c, k) ==
    /\ k.kind = "updateSale" /\ k.pc = "restore"
    /\ LET restore == k.stockRestores[k.i]
           found == rowsOfProduct(db.product_batches, restore.productId)
       IN IF found = {} THEN UNCHANGED db
          ELSE \E j \in found :
                 db' = [db EXCEPT !.product_batches = restoreStock(@, j, restore.quantity)]
    /\ calls' = [calls EXCEPT ![c] = (calls[c] \ {k}) \cup
                   {IF k.i < Len(k.stockRestores) THEN [k EXCEPT !.i = @ + 1]
                    ELSE [k EXCEPT !.pc = "deduct"]}]
    /\ ret' = NoRet
    /\ UNCHANGED <<state, opCount, failed>>

\* a deduct loop that stops after its first deduction
deductStocksOnce(rows, stockDeductions) ==
    IF stockDeductions = <<>> THEN rows
    ELSE [i \in 1..Len(rows) |->
             IF rows[i].id = Head(stockDeductions).batchId
             THEN [rows[i] EXCEPT !.stock = @ - Head(stockDeductions).quantity]
             ELSE rows[i]]

\* select('stock').eq('id', batchId).single(), then stock - quantity
RECURSIVE deductStocks(_, _)
deductStocks(rows, stockDeductions) ==
    IF stockDeductions = <<>> THEN rows
    ELSE LET deduct == Head(stockDeductions)
         IN deductStocks([i \in 1..Len(rows) |->
                             IF rows[i].id = deduct.batchId
                             THEN [rows[i] EXCEPT !.stock = @ - deduct.quantity]
                             ELSE rows[i]],
                         Tail(stockDeductions))

\* 2. deduct stock (apply new)
UpdateSaleDeduct(c, k) ==
    /\ k.kind = "updateSale" /\ k.pc = "deduct"
    /\ db' = [db EXCEPT !.product_batches = deductStocks(@, k.stockDeductions)]
    /\ advance(c, k, "header")
    /\ ret' = NoRet
    /\ UNCHANGED <<state, opCount, failed>>

\* update({subtotal, total_discount, total_amount, customer_id}).eq('id', invoiceId):
\* an undefined customerId is dropped from the request body, the column keeps its value
updateSaleRow(row, newInvoiceData) ==
    [row EXCEPT !.subtotal = newInvoiceData.subtotal,
                !.total_discount = newInvoiceData.totalDiscount,
                !.total_amount = newInvoiceData.totalAmount,
                !.customer_id = IF newInvoiceData.customerId = none THEN @
                                ELSE newInvoiceData.customerId,
                !.items = saleItemsData(newInvoiceData.items)]

\* 3. update invoice header, 4. delete the old items and insert the new ones
UpdateSaleHeader(c, k) ==
    /\ k.kind = "updateSale" /\ k.pc = "header"
    /\ db' = [db EXCEPT !.sale_invoices =
                {IF r.id = k.invoiceId THEN updateSaleRow(r, k.newInvoiceData) ELSE r : r \in @}]
    /\ advance(c, k, IF k.customerUpdate = <<>> THEN "then" ELSE "customer")
    /\ ret' = NoRet
    /\ UNCHANGED <<state, opCount, failed>>

\* 3. if (headerError) throw headerError; completeSale attaches no .catch
UpdateSaleFails(c, k) ==
    /\ k.kind = "updateSale" /\ k.pc = "header"
    /\ settle(c, k)
    /\ failed' = TRUE
    /\ ret' = NoRet
    /\ UNCHANGED <<state, db, opCount>>

\* updateSale's customer step without the revert of the old amount
UpdateSaleCustomerNoRevert(c, k) ==
    /\ k.kind = "updateSale" /\ k.pc = "customer"
    /\ LET u == k.customerUpdate[1]
       IN db' = [db EXCEPT
                   !.customers[u.id] = @ + u.newAmount,
                   !.customer_transactions =
                       {IF t.invoice_id = k.invoiceId /\ t.type = "credit_sale"
                        THEN [t EXCEPT !.amount = u.newAmount] ELSE t : t \in @}]
    /\ advance(c, k, "then")
    /\ ret' = NoRet
    /\ UNCHANGED <<state, opCount, failed>>

\* 5. update customer: balance - oldAmount + newAmount on the balance just read,
\* and the amount of the invoice's credit_sale ledger row
UpdateSaleCustomer(c, k) ==
    /\ k.kind = "updateSale" /\ k.pc = "customer"
    /\ LET u == k.customerUpdate[1]
       IN db' = [db EXCEPT
                   !.customers[u.id] = @ - u.oldAmount + u.newAmount,
                   !.customer_transactions =
                       {IF t.invoice_id = k.invoiceId /\ t.type = "credit_sale"
                        THEN [t EXCEPT !.amount = u.newAmount] ELSE t : t \in @}]
    /\ advance(c, k, "then")
    /\ ret' = NoRet
    /\ UNCHANGED <<state, opCount, failed>>

\* completeSale: api.updateSale(...).then(() => { ...; fetchData(); })
UpdateSaleThen(c, k) ==
    /\ k.kind = "updateSale" /\ k.pc = "then"
    /\ state' = [state EXCEPT ![c] = fetchData(state[c])]
    /\ settle(c, k)
    /\ ret' = NoRet
    /\ UNCHANGED <<db, opCount, failed>>

\* ------------------------------------------------------------ addSaleReturn
\* addSaleReturn(originalInvoiceId, returnItems, cashier)
AddSaleReturn(c, originalInvoiceId, returnItems) ==
    IF ~hasInvoice(state[c].saleInvoices, originalInvoiceId)
    THEN /\ Return("addSaleReturn", c, FALSE, "invoice not found")
         /\ UNCHANGED <<state, db, calls, opCount, failed>>
    ELSE LET originalInvoice == findInvoice(state[c].saleInvoices, originalInvoiceId)
             known == SelectSeq(returnItems,
                                LAMBDA ri : \E i \in 1..Len(originalInvoice.items) :
                                                originalInvoice.items[i].id = ri.id)
             originalItem(ri) ==
                 originalInvoice.items[CHOOSE i \in 1..Len(originalInvoice.items) :
                     /\ originalInvoice.items[i].id = ri.id
                     /\ \A j \in 1..(i - 1) : originalInvoice.items[j].id # ri.id]
             detailedReturnItems ==
                 [i \in 1..Len(known) |->
                     [originalItem(known[i]) EXCEPT !.quantity = known[i].quantity]]
             returnTotal ==
                 SeqSum([i \in 1..Len(known) |->
                            getPrice(originalItem(known[i])).final * known[i].quantity])
             returnInvoice ==
                 [id |-> generateNextId("R", {i.id : i \in state[c].saleInvoices}),
                  type |-> "return", originalInvoiceId |-> originalInvoiceId,
                  items |-> detailedReturnItems, subtotal |-> returnTotal,
                  totalAmount |-> returnTotal, totalDiscount |-> 0,
                  customerId |-> originalInvoice.customerId]
             stockRestores ==
                 [i \in 1..Len(detailedReturnItems) |->
                     [productId |-> detailedReturnItems[i].id,
                      quantity |-> detailedReturnItems[i].quantity]]
             customerRefund ==
                 IF originalInvoice.customerId # none
                 THEN <<[id |-> originalInvoice.customerId, amount |-> returnTotal]>>
                 ELSE <<>>
         IN /\ calls' = [calls EXCEPT ![c] = calls[c] \cup
                           {[id |-> opCount + 1, before |-> snapshot(c), kind |-> "createSaleReturn",
                             pc |-> "header", i |-> 1, returnInvoice |-> returnInvoice,
                             stockRestores |-> stockRestores,
                             customerRefund |-> customerRefund]}]
            /\ opCount' = opCount + 1
            /\ Return("addSaleReturn", c, TRUE, "")
            /\ UNCHANGED <<state, db, failed>>

\* ------------------------------------------------------------ api.createSaleReturn
\* insert the return invoice header, then its items
CreateSaleReturnInsert(c, k) ==
    /\ k.kind = "createSaleReturn" /\ k.pc = "header"
    /\ ~hasInvoice(db.sale_invoices, k.returnInvoice.id)
    /\ db' = [db EXCEPT !.sale_invoices =
                @ \cup {saleInvoiceRow(k.returnInvoice, saleReturnItemsData(k.returnInvoice.items))}]
    /\ advance(c, k, IF k.stockRestores # <<>> THEN "restore"
                     ELSE IF k.customerRefund # <<>> THEN "customer" ELSE "then")
    /\ ret' = NoRet
    /\ UNCHANGED <<state, opCount, failed>>

\* if (iError) throw iError; addSaleReturn's .catch shows a toast
CreateSaleReturnFails(c, k) ==
    /\ k.kind = "createSaleReturn" /\ k.pc = "header"
    /\ settle(c, k)
    /\ failed' = TRUE
    /\ ret' = NoRet
    /\ UNCHANGED <<state, db, opCount>>

\* for (const restore of stockRestores): first row of the product, stock + quantity
CreateSaleReturnRestore(c, k) ==
    /\ k.kind = "createSaleReturn" /\ k.pc = "restore"
    /\ LET restore == k.stockRestores[k.i]
           found == rowsOfProduct(db.product_batches, restore.productId)
       IN IF found = {} THEN UNCHANGED db
          ELSE \E j \in found :
                 db' = [db EXCEPT !.product_batches = restoreStock(@, j, restore.quantity)]
    /\ calls' = [calls EXCEPT ![c] = (calls[c] \ {k}) \cup
                   {IF k.i < Len(k.stockRestores) THEN [k EXCEPT !.i = @ + 1]
                    ELSE [k EXCEPT !.pc = IF k.customerRefund # <<>> THEN "customer"
                                          ELSE "then"]}]
    /\ ret' = NoRet
    /\ UNCHANGED <<state, opCount, failed>>

\* if (customerRefund): balance - amount on the balance just read, sale_return row
CreateSaleReturnCustomer(c, k) ==
    /\ k.kind = "createSaleReturn" /\ k.pc = "customer"
    /\ LET r == k.customerRefund[1]
       IN db' = [db EXCEPT
                   !.customers[r.id] = @ - r.amount,
                   !.customer_transactions =
                       @ \cup {[id |-> k.id, customer_id |-> r.id, type |-> "sale_return",
                                amount |-> r.amount, invoice_id |-> k.returnInvoice.id]}]
    /\ advance(c, k, "then")
    /\ ret' = NoRet
    /\ UNCHANGED <<state, opCount, failed>>

\* addSaleReturn: api.createSaleReturn(...).then(() => { ...; fetchData(); })
CreateSaleReturnThen(c, k) ==
    /\ k.kind = "createSaleReturn" /\ k.pc = "then"
    /\ state' = [state EXCEPT ![c] = fetchData(state[c])]
    /\ settle(c, k)
    /\ ret' = NoRet
    /\ UNCHANGED <<db, opCount, failed>>

\* ------------------------------------------------------------ payments
\* addCustomerPayment(customerId, amount, description)
AddCustomerPayment(c, customerId, amount) ==
    LET transaction == [id |-> opCount + 1, customerId |-> customerId, type |-> "payment",
                        amount |-> amount, invoiceId |-> NoInvoice]
        newBalance == state[c].customers[customerId] - amount
    IN /\ calls' = [calls EXCEPT ![c] = calls[c] \cup
                      {[id |-> opCount + 1, before |-> snapshot(c), kind |-> "processPayment", pc |-> "write",
                        entityType |-> "customer", entityId |-> customerId,
                        newBalance |-> newBalance, transaction |-> transaction]}]
       /\ opCount' = opCount + 1
       /\ Return("addCustomerPayment", c, TRUE, "")
       /\ UNCHANGED <<state, db, failed>>

\* addSupplierPayment(supplierId, amount, description, currency, exchangeRate)
AddSupplierPayment(c, supplierId, amount, currency, exchangeRate) ==
    LET transaction == [id |-> opCount + 1, supplierId |-> supplierId, type |-> "payment",
                        amount |-> amount, invoiceId |-> NoInvoice, currency |-> currency]
        paymentValueInAFN == IF currency = "USD" THEN amount * exchangeRate ELSE amount
        newBalance == state[c].suppliers[supplierId] - paymentValueInAFN
    IN /\ calls' = [calls EXCEPT ![c] = calls[c] \cup
                      {[id |-> opCount + 1, before |-> snapshot(c), kind |-> "processPayment", pc |-> "write",
                        entityType |-> "supplier", entityId |-> supplierId,
                        newBalance |-> newBalance, transaction |-> transaction,
                        exchangeRate |-> exchangeRate]}]
       /\ opCount' = opCount + 1
       /\ Return("addSupplierPayment", c, TRUE, "")
       /\ UNCHANGED <<state, db, failed>>

\* addEmployeeAdvance(employeeId, amount)
AddEmployeeAdvance(c, employeeId, amount) ==
    LET transaction == [id |-> opCount + 1, employeeId |-> employeeId, type |-> "advance",
                        amount |-> amount]
        newBalance == state[c].employees[employeeId] + amount
    IN /\ calls' = [calls EXCEPT ![c] = calls[c] \cup
                      {[id |-> opCount + 1, before |-> snapshot(c), kind |-> "processPayment", pc |-> "write",
                        entityType |-> "employee", entityId |-> employeeId,
                        newBalance |-> newBalance, transaction |-> transaction]}]
       /\ opCount' = opCount + 1
       /\ Return("addEmployeeAdvance", c, TRUE, "")
       /\ UNCHANGED <<state, db, failed>>

\* api.processPayment: update({ balance: newBalance }), then insert the ledger row
ProcessPaymentWrite(c, k) ==
    /\ k.kind = "processPayment" /\ k.pc = "write"
    /\ db' = IF k.entityType = "customer"
             THEN [db EXCEPT !.customers[k.entityId] = k.newBalance,
                             !.customer_transactions =
                                 @ \cup {customerTransactionRow(k.transaction)}]
             ELSE IF k.entityType = "supplier"
             THEN [db EXCEPT !.suppliers[k.entityId] = k.newBalance,
                             !.supplier_transactions =
                                 @ \cup {supplierTransactionRow(k.transaction)}]
             ELSE [db EXCEPT !.employees[k.entityId] = k.newBalance,
                             !.payroll_transactions =
                                 @ \cup {payrollTransactionRow(k.transaction)}]
    /\ advance(c, k, "then")
    /\ ret' = NoRet
    /\ UNCHANGED <<state, opCount, failed>>

\* addCustomerPayment / addSupplierPayment / addEmployeeAdvance: .then(() => setState(prev => ...))
ProcessPaymentThen(c, k) ==
    /\ k.kind = "processPayment" /\ k.pc = "then"
    /\ state' = IF k.entityType = "customer"
                THEN [state EXCEPT ![c].customers[k.entityId] = k.newBalance,
                                   ![c].customerTransactions = @ \cup {k.transaction}]
                ELSE IF k.entityType = "supplier"
                THEN [state EXCEPT ![c].suppliers[k.entityId] = k.newBalance,
                                   ![c].supplierTransactions = @ \cup {k.transaction}]
                ELSE [state EXCEPT ![c].employees[k.entityId] = k.newBalance,
                                   ![c].payrollTransactions = @ \cup {k.transaction}]
    /\ settle(c, k)
    /\ ret' = NoRet
    /\ UNCHANGED <<db, opCount, failed>>

\* ------------------------------------------------------------ payroll
\* the salary taken in full, whatever the employee has drawn
netSalaryGross(e, balance) == monthlySalary[e]

\* processAndPaySalaries: netSalary = emp.monthlySalary - emp.balance
netSalary(e, balance) == monthlySalary[e] - balance

\* crypto.randomUUID() for the ledger row of employee e in the call numbered n
payrollId(n, e) == IF e = "e1" THEN 2 * n + 100 ELSE 2 * n + 101

RECURSIVE sumOfAmounts(_)
sumOfAmounts(rows) ==
    IF rows = {} THEN 0
    ELSE LET r == CHOOSE x \in rows : TRUE IN r.amount + sumOfAmounts(rows \ {r})

\* processAndPaySalaries()
ProcessAndPaySalaries(c) ==
    LET employees == state[c].employees
        newTransactions ==
            {[id |-> payrollId(opCount + 1, e), employeeId |-> e, type |-> "salary_payment",
              amount |-> netSalary(e, employees[e])] :
                e \in {x \in DOMAIN employees : netSalary(x, employees[x]) > 0}}
        totalPaid == sumOfAmounts(newTransactions)
        employeeUpdates == DOMAIN employees
        expense == [id |-> opCount + 1, category |-> "salary", amount |-> totalPaid]
    IN IF totalPaid = 0
       THEN /\ Return("processAndPaySalaries", c, FALSE, "nothing to pay")
            /\ UNCHANGED <<state, db, calls, opCount, failed>>
       ELSE /\ calls' = [calls EXCEPT ![c] = calls[c] \cup
                           {[id |-> opCount + 1, before |-> snapshot(c),
                             kind |-> "processPayroll", pc |-> "reset",
                             updates |-> employeeUpdates,
                             transactions |-> newTransactions, expense |-> expense]}]
            /\ opCount' = opCount + 1
            /\ Return("processAndPaySalaries", c, TRUE, "")
            /\ UNCHANGED <<state, db, failed>>

\* api.processPayroll 1. for (const u of updates) update({ balance: 0 }): one
\* employee per step (the order of the array is not kept; every order is taken)
ProcessPayrollReset(c, k) ==
    /\ k.kind = "processPayroll" /\ k.pc = "reset"
    /\ \E u \in k.updates :
          /\ db' = [db EXCEPT !.employees =
                       IF u \in DOMAIN @ THEN [@ EXCEPT ![u] = 0] ELSE @]
          /\ calls' = [calls EXCEPT ![c] = (calls[c] \ {k}) \cup
                          {[k EXCEPT !.updates = @ \ {u},
                                     !.pc = IF k.updates = {u} THEN "transactions"
                                            ELSE "reset"]}]
    /\ ret' = NoRet
    /\ UNCHANGED <<state, opCount, failed>>

\* 2. insert the ledger rows
ProcessPayrollTransactions(c, k) ==
    /\ k.kind = "processPayroll" /\ k.pc = "transactions"
    /\ db' = [db EXCEPT !.payroll_transactions =
                @ \cup {payrollTransactionRow(t) : t \in k.transactions}]
    /\ advance(c, k, "expense")
    /\ ret' = NoRet
    /\ UNCHANGED <<state, opCount, failed>>

\* 3. insert the expense
ProcessPayrollExpense(c, k) ==
    /\ k.kind = "processPayroll" /\ k.pc = "expense"
    /\ db' = [db EXCEPT !.expenses = @ \cup {k.expense}]
    /\ advance(c, k, "then")
    /\ ret' = NoRet
    /\ UNCHANGED <<state, opCount, failed>>

\* processAndPaySalaries: .then(() => setState(prev => ...))
ProcessPayrollThen(c, k) ==
    /\ k.kind = "processPayroll" /\ k.pc = "then"
    /\ state' = [state EXCEPT ![c].employees = [e \in DOMAIN @ |-> 0],
                              ![c].payrollTransactions = @ \cup k.transactions,
                              ![c].expenses = @ \cup {k.expense}]
    /\ settle(c, k)
    /\ ret' = NoRet
    /\ UNCHANGED <<db, opCount, failed>>

\* ------------------------------------------------------------ deleting
\* deleteProduct: hasSalesHistory || hasPurchaseHistory, on the state of client c
hasHistory(c, productId) ==
    \/ \E inv \in state[c].saleInvoices :
          \E i \in 1..Len(inv.items) : inv.items[i].id = productId
    \/ \E inv \in state[c].purchaseInvoices :
          \E i \in 1..Len(inv.items) : inv.items[i].productId = productId

deleteCall(c, entityType, id) ==
    [id |-> opCount + 1, before |-> snapshot(c), kind |-> "delete", pc |-> "delete",
     entityType |-> entityType, entityId |-> id]

\* deleteProduct(productId), from the delete button of a listed product (the
\* confirm dialog accepted)
DeleteProduct(c, productId) ==
    /\ \E i \in 1..Len(state[c].products) : state[c].products[i].productId = productId
    /\ IF hasHistory(c, productId)
       THEN /\ Return("deleteProduct", c, FALSE, "history")
            /\ UNCHANGED <<state, db, calls, opCount, failed>>
       ELSE /\ calls' = [calls EXCEPT ![c] = calls[c] \cup
                           {deleteCall(c, "product", productId)}]
            /\ opCount' = opCount + 1
            /\ Return("deleteProduct", c, TRUE, "")
            /\ UNCHANGED <<state, db, failed>>

\* Customers page handleDelete(customer) and deleteCustomer(id)
DeleteCustomer(c, id) ==
    /\ id \in DOMAIN state[c].customers
    /\ IF state[c].customers[id] # 0
       THEN /\ Return("deleteCustomer", c, FALSE, "balance")
            /\ UNCHANGED <<state, db, calls, opCount, failed>>
       ELSE /\ calls' = [calls EXCEPT ![c] = calls[c] \cup
                           {deleteCall(c, "customer", id)}]
            /\ opCount' = opCount + 1
            /\ Return("deleteCustomer", c, TRUE, "")
            /\ UNCHANGED <<state, db, failed>>

\* Suppliers page handleDelete(supplier) and deleteSupplier(id)
DeleteSupplier(c, id) ==
    /\ id \in DOMAIN state[c].suppliers
    /\ IF state[c].suppliers[id] # 0
       THEN /\ Return("deleteSupplier", c, FALSE, "balance")
            /\ UNCHANGED <<state, db, calls, opCount, failed>>
       ELSE /\ calls' = [calls EXCEPT ![c] = calls[c] \cup
                           {deleteCall(c, "supplier", id)}]
            /\ opCount' = opCount + 1
            /\ Return("deleteSupplier", c, TRUE, "")
            /\ UNCHANGED <<state, db, failed>>

without(f, id) == [x \in DOMAIN f \ {id} |-> f[x]]

\* api.deleteProduct / api.deleteCustomer / api.deleteSupplier:
\* from(table).delete().eq('id', id) takes the row away
ApiDelete(c, k) ==
    /\ k.kind = "delete" /\ k.pc = "delete"
    /\ db' = IF k.entityType = "product"
             THEN [db EXCEPT !.products = @ \ {k.entityId}]
             ELSE IF k.entityType = "customer"
             THEN [db EXCEPT !.customers = without(@, k.entityId)]
             ELSE [db EXCEPT !.suppliers = without(@, k.entityId)]
    /\ advance(c, k, "then")
    /\ ret' = NoRet
    /\ UNCHANGED <<state, opCount, failed>>

\* the delete comes back with an error: if (error) throw error, and the catch of
\* the action only shows a message
ApiDeleteFails(c, k) ==
    /\ k.kind = "delete" /\ k.pc = "delete"
    /\ settle(c, k)
    /\ failed' = TRUE
    /\ ret' = NoRet
    /\ UNCHANGED <<state, db, opCount>>

\* setState(prev => ({...prev, customers: prev.customers.filter(c => c.id !== id)}))
\* and the same for products and suppliers
DeleteThen(c, k) ==
    /\ k.kind = "delete" /\ k.pc = "then"
    /\ state' = IF k.entityType = "product"
                THEN [state EXCEPT ![c].products =
                        SelectSeq(@, LAMBDA b : b.productId # k.entityId)]
                ELSE IF k.entityType = "customer"
                THEN [state EXCEPT ![c].customers = without(@, k.entityId)]
                ELSE [state EXCEPT ![c].suppliers = without(@, k.entityId)]
    /\ settle(c, k)
    /\ ret' = NoRet
    /\ UNCHANGED <<db, opCount, failed>>

\* ------------------------------------------------------------ addPurchaseInvoice
\* the lines posted with the unit cost as entered, not converted
finalItemsAsEntered(items, rate) == items

\* invoiceData.items.map(item => ({...item, purchasePrice: item.purchasePrice * rate}))
finalItems(items, rate) ==
    [i \in 1..Len(items) |-> [items[i] EXCEPT !.purchasePrice = @ * rate]]

\* items.reduce((total, item) => total + item.purchasePrice * item.quantity, 0)
purchaseTotal(items) ==
    SeqSum([i \in 1..Len(items) |-> items[i].purchasePrice * items[i].quantity])

\* for (const item of invoice.items) { newBatches.push(newBatch) }; n stands for
\* the fresh crypto.randomUUID() values
newBatches(items, timestamp, n) ==
    [i \in 1..Len(items) |->
        [id |-> 10 * n + i, productId |-> items[i].productId,
         lotNumber |-> items[i].lotNumber, stock |-> items[i].quantity,
         purchasePrice |-> items[i].purchasePrice, purchaseDate |-> timestamp,
         expiryDate |-> items[i].expiryDate]]

\* supplierUpdate of addPurchaseInvoice
purchaseSupplierUpdate(supplierId, balance, invoice, isUSD, rate, n) ==
    [id |-> supplierId,
     newBalance |-> balance + invoice.totalAmount,
     transaction |->
        [id |-> n, supplierId |-> supplierId, type |-> "purchase",
         amount |-> IF isUSD THEN invoice.totalAmount \div rate ELSE invoice.totalAmount,
         invoiceId |-> invoice.id, currency |-> invoice.currency]]

\* addPurchaseInvoice(invoiceData)
AddPurchaseInvoice(c, invoiceData) ==
    LET isUSD == invoiceData.currency = "USD"
        rate == IF isUSD THEN invoiceData.exchangeRate ELSE 1
        items == finalItems(invoiceData.items, rate)
        invoice == [id |-> generateNextId("P", {i.id : i \in state[c].purchaseInvoices}),
                    type |-> "purchase", originalInvoiceId |-> NoInvoice,
                    supplierId |-> invoiceData.supplierId,
                    totalAmount |-> purchaseTotal(items),
                    currency |-> invoiceData.currency, exchangeRate |-> rate,
                    items |-> items]
        batches == newBatches(items, invoiceData.timestamp, opCount + 1)
        localProducts == state[c].products \o batches
        supplierUpdate ==
            purchaseSupplierUpdate(invoiceData.supplierId,
                                   state[c].suppliers[invoiceData.supplierId],
                                   invoice, isUSD, rate, opCount + 1)
    IN /\ calls' = [calls EXCEPT ![c] = calls[c] \cup
                      {[id |-> opCount + 1, before |-> snapshot(c), kind |-> "createPurchase", pc |-> "header",
                        invoice |-> invoice, supplierUpdate |-> supplierUpdate,
                        newBatches |-> batches, localProducts |-> localProducts,
                        invoiceData |-> invoiceData]}]
       /\ opCount' = opCount + 1
       /\ Return("addPurchaseInvoice", c, TRUE, "")
       /\ UNCHANGED <<state, db, failed>>

\* ------------------------------------------------------------ api.createPurchase
purchaseInvoiceRow(invoice) ==
    [id |-> invoice.id, type |-> invoice.type,
     original_invoice_id |-> invoice.originalInvoiceId,
     supplier_id |-> invoice.supplierId, total_amount |-> invoice.totalAmount,
     currency |-> invoice.currency, exchange_rate |-> invoice.exchangeRate,
     items |-> purchaseItemsData(invoice.items)]

batchesData(batches) ==
    [i \in 1..Len(batches) |->
        [id |-> batches[i].id, product_id |-> batches[i].productId,
         lot_number |-> batches[i].lotNumber, stock |-> batches[i].stock,
         purchase_price |-> batches[i].purchasePrice,
         purchase_date |-> batches[i].purchaseDate,
         expiry_date |-> batches[i].expiryDate]]

\* insert the header, then the items
CreatePurchaseInsert(c, k) ==
    /\ k.kind = "createPurchase" /\ k.pc = "header"
    /\ ~hasInvoice(db.purchase_invoices, k.invoice.id)
    /\ db' = [db EXCEPT !.purchase_invoices = @ \cup {purchaseInvoiceRow(k.invoice)}]
    /\ advance(c, k, "post")
    /\ ret' = NoRet
    /\ UNCHANGED <<state, opCount, failed>>

\* the header inserted; the insert of the items that follows returns an error
CreatePurchaseHeaderOnly(c, k) ==
    /\ k.kind = "createPurchase" /\ k.pc = "header"
    /\ ~hasInvoice(db.purchase_invoices, k.invoice.id)
    /\ db' = [db EXCEPT !.purchase_invoices =
                @ \cup {[purchaseInvoiceRow(k.invoice) EXCEPT !.items = <<>>]}]
    /\ advance(c, k, "items")
    /\ ret' = NoRet
    /\ UNCHANGED <<state, opCount, failed>>

\* if (iError) throw iError; if (itemError) throw itemError; addPurchaseInvoice's
\* .catch shows a toast
CreatePurchaseFails(c, k) ==
    /\ k.kind = "createPurchase" /\ k.pc \in {"header", "items"}
    /\ settle(c, k)
    /\ failed' = TRUE
    /\ ret' = NoRet
    /\ UNCHANGED <<state, db, opCount>>

\* insert the batches, write the supplier's new balance, insert the ledger row
CreatePurchasePost(c, k) ==
    /\ k.kind = "createPurchase" /\ k.pc = "post"
    /\ db' = [db EXCEPT
                !.product_batches = @ \o batchesData(k.newBatches),
                !.suppliers[k.supplierUpdate.id] = k.supplierUpdate.newBalance,
                !.supplier_transactions =
                    @ \cup {supplierTransactionRow(k.supplierUpdate.transaction)}]
    /\ advance(c, k, "then")
    /\ ret' = NoRet
    /\ UNCHANGED <<state, opCount, failed>>

\* addPurchaseInvoice: .then(() => setState(prev => ...))
CreatePurchaseThen(c, k) ==
    /\ k.kind = "createPurchase" /\ k.pc = "then"
    /\ state' = [state EXCEPT
                   ![c].products = k.localProducts,
                   ![c].purchaseInvoices = @ \cup {k.invoice},
                   ![c].suppliers[k.supplierUpdate.id] = @ + k.invoice.totalAmount,
                   ![c].supplierTransactions = @ \cup {k.supplierUpdate.transaction}]
    /\ settle(c, k)
    /\ ret' = NoRet
    /\ UNCHANGED <<db, opCount, failed>>

\* ------------------------------------------------------------ purchase edit
BeginEditPurchase(c, invoiceId) ==
    /\ state' = [state EXCEPT ![c].editingPurchaseInvoiceId = invoiceId]
    /\ Return("beginEditPurchase", c, TRUE, "")
    /\ UNCHANGED <<db, calls, opCount, failed>>

CancelEditPurchase(c) ==
    /\ state' = [state EXCEPT ![c].editingPurchaseInvoiceId = NoInvoice]
    /\ Return("cancelEditPurchase", c, TRUE, "")
    /\ UNCHANGED <<db, calls, opCount, failed>>

\* updatePurchaseInvoice(invoiceData)
UpdatePurchaseInvoice(c, invoiceData) ==
    /\ hasInvoice(state[c].purchaseInvoices, state[c].editingPurchaseInvoiceId)
    /\ LET invoiceId == state[c].editingPurchaseInvoiceId
           oldInvoice == findInvoice(state[c].purchaseInvoices, invoiceId)
           totalAmount == purchaseTotal(invoiceData.items)
           newInvoice == [oldInvoice EXCEPT
                            !.supplierId = invoiceData.supplierId,
                            !.currency = invoiceData.currency,
                            !.exchangeRate = invoiceData.exchangeRate,
                            !.items = invoiceData.items,
                            !.totalAmount = totalAmount]
           supplierUpdate == [id |-> newInvoice.supplierId,
                              oldAmount |-> oldInvoice.totalAmount,
                              newAmount |-> totalAmount]
       IN calls' = [calls EXCEPT ![c] = calls[c] \cup
                      {[id |-> opCount + 1, before |-> snapshot(c), kind |-> "updatePurchase", pc |-> "header",
                        invoiceId |-> invoiceId, newInvoiceData |-> newInvoice,
                        supplierUpdate |-> supplierUpdate]}]
    /\ opCount' = opCount + 1
    /\ Return("updatePurchaseInvoice", c, TRUE, "")
    /\ UNCHANGED <<state, db, failed>>

\* api.updatePurchase 1, 2: update the header, re-create the items
updatePurchaseRow(row, newInvoiceData) ==
    [row EXCEPT !.supplier_id = newInvoiceData.supplierId,
                !.total_amount = newInvoiceData.totalAmount,
                !.currency = newInvoiceData.currency,
                !.exchange_rate = newInvoiceData.exchangeRate,
                !.items = purchaseItemsData(newInvoiceData.items)]

UpdatePurchaseHeader(c, k) ==
    /\ k.kind = "updatePurchase" /\ k.pc = "header"
    /\ db' = [db EXCEPT !.purchase_invoices =
                {IF r.id = k.invoiceId THEN updatePurchaseRow(r, k.newInvoiceData) ELSE r
                    : r \in @}]
    /\ advance(c, k, "supplier")
    /\ ret' = NoRet
    /\ UNCHANGED <<state, opCount, failed>>

\* api.updatePurchase 4: balance - oldAmount + newAmount on the balance just read,
\* amount of the invoice's purchase ledger row := newAmount
UpdatePurchaseSupplier(c, k) ==
    /\ k.kind = "updatePurchase" /\ k.pc = "supplier"
    /\ LET u == k.supplierUpdate
       IN db' = [db EXCEPT
                   !.suppliers[u.id] = @ - u.oldAmount + u.newAmount,
                   !.supplier_transactions =
                       {IF t.invoice_id = k.invoiceId /\ t.type = "purchase"
                        THEN [t EXCEPT !.amount = u.newAmount] ELSE t : t \in @}]
    /\ advance(c, k, "then")
    /\ ret' = NoRet
    /\ UNCHANGED <<state, opCount, failed>>

\* updatePurchaseInvoice: .then(() => { fetchData(); setState(editing id: null) })
UpdatePurchaseThen(c, k) ==
    /\ k.kind = "updatePurchase" /\ k.pc = "then"
    /\ state' = [state EXCEPT
                   ![c] = [fetchData(state[c]) EXCEPT !.editingPurchaseInvoiceId = NoInvoice]]
    /\ settle(c, k)
    /\ ret' = NoRet
    /\ UNCHANGED <<db, opCount, failed>>

\* ------------------------------------------------------------ addPurchaseReturn
\* originalInvoice.items.find(i => i.productId === ri.productId)
firstItemOf(items, productId) ==
    SelectSeq(items, LAMBDA i : i.productId = productId)[1]

\* addPurchaseReturn(originalInvoiceId, returnItems)
AddPurchaseReturn(c, originalInvoiceId, returnItems) ==
    IF ~hasInvoice(state[c].purchaseInvoices, originalInvoiceId)
    THEN /\ Return("addPurchaseReturn", c, FALSE, "invoice not found")
         /\ UNCHANGED <<state, db, calls, opCount, failed>>
    ELSE LET originalInvoice == findInvoice(state[c].purchaseInvoices, originalInvoiceId)
             known == SelectSeq(returnItems,
                                LAMBDA ri : \E i \in 1..Len(originalInvoice.items) :
                                                originalInvoice.items[i].productId = ri.productId)
             originalItem(ri) == firstItemOf(originalInvoice.items, ri.productId)
             returnTotal ==
                 SeqSum([i \in 1..Len(known) |->
                            originalItem(known[i]).purchasePrice * known[i].quantity])
             fullReturnItems ==
                 [i \in 1..Len(known) |->
                     [originalItem(known[i]) EXCEPT !.quantity = known[i].quantity]]
             stockDeductions ==
                 [i \in 1..Len(known) |->
                     [productId |-> known[i].productId, quantity |-> known[i].quantity,
                      lotNumber |-> originalItem(known[i]).lotNumber]]
             returnInvoice ==
                 [id |-> generateNextId("PR", {i.id : i \in state[c].purchaseInvoices}),
                  type |-> "return", originalInvoiceId |-> originalInvoiceId,
                  supplierId |-> originalInvoice.supplierId,
                  totalAmount |-> returnTotal, currency |-> "AFN", exchangeRate |-> 1,
                  items |-> fullReturnItems]
             supplierRefund == [id |-> originalInvoice.supplierId, amount |-> returnTotal]
         IN /\ calls' = [calls EXCEPT ![c] = calls[c] \cup
                           {[id |-> opCount + 1, before |-> snapshot(c), kind |-> "createPurchaseReturn",
                             pc |-> "header", i |-> 1, returnInvoice |-> returnInvoice,
                             stockDeductions |-> stockDeductions,
                             supplierRefund |-> supplierRefund]}]
            /\ opCount' = opCount + 1
            /\ Return("addPurchaseReturn", c, TRUE, "")
            /\ UNCHANGED <<state, db, failed>>

\* ------------------------------------------------------------ api.createPurchaseReturn
\* 1. insert the return invoice and its items; no error is looked at, so a header
\* whose id exists is dropped and the items join the rows of that id
CreatePurchaseReturnInsert(c, k) ==
    /\ k.kind = "createPurchaseReturn" /\ k.pc = "header"
    /\ db' = [db EXCEPT !.purchase_invoices =
                IF hasInvoice(@, k.returnInvoice.id)
                THEN {IF r.id = k.returnInvoice.id
                      THEN [r EXCEPT !.items = @ \o purchaseItemsData(k.returnInvoice.items)]
                      ELSE r : r \in @}
                ELSE @ \cup {purchaseInvoiceRow(k.returnInvoice)}]
    /\ advance(c, k, IF k.stockDeductions # <<>> THEN "stock" ELSE "supplier")
    /\ ret' = NoRet
    /\ UNCHANGED <<state, opCount, failed>>

\* rows with product_id = p and lot_number = lot (the query is .limit(1), unordered)
rowsOfLot(rows, p, lot) ==
    {j \in 1..Len(rows) : rows[j].product_id = p /\ rows[j].lot_number = lot}

\* the stock written without the floor at zero
reduceStockBelowZero(rows, j, quantity) ==
    [rows EXCEPT ![j].stock = @ - quantity]

\* newStock = Math.max(0, batch.stock - deduct.quantity)
reduceStock(rows, j, quantity) ==
    [rows EXCEPT ![j].stock = Max(0, @ - quantity)]

\* 2. for (const deduct of stockDeductions)
CreatePurchaseReturnStock(c, k) ==
    /\ k.kind = "createPurchaseReturn" /\ k.pc = "stock"
    /\ LET deduct == k.stockDeductions[k.i]
           found == rowsOfLot(db.product_batches, deduct.productId, deduct.lotNumber)
       IN IF found = {} THEN UNCHANGED db
          ELSE \E j \in found :
                 db' = [db EXCEPT !.product_batches = reduceStock(@, j, deduct.quantity)]
    /\ calls' = [calls EXCEPT ![c] = (calls[c] \ {k}) \cup
                   {IF k.i < Len(k.stockDeductions) THEN [k EXCEPT !.i = @ + 1]
                    ELSE [k EXCEPT !.pc = "supplier"]}]
    /\ ret' = NoRet
    /\ UNCHANGED <<state, opCount, failed>>

\* 3. balance - amount on the balance just read, purchase_return ledger row
CreatePurchaseReturnSupplier(c, k) ==
    /\ k.kind = "createPurchaseReturn" /\ k.pc = "supplier"
    /\ LET r == k.supplierRefund
       IN db' = [db EXCEPT
                   !.suppliers[r.id] = @ - r.amount,
                   !.supplier_transactions =
                       @ \cup {[id |-> k.id, supplier_id |-> r.id, type |-> "purchase_return",
                                amount |-> r.amount, invoice_id |-> k.returnInvoice.id,
                                currency |-> "AFN"]}]
    /\ advance(c, k, "then")
    /\ ret' = NoRet
    /\ UNCHANGED <<state, opCount, failed>>

\* addPurchaseReturn: .then(() => { ...; fetchData(); })
CreatePurchaseReturnThen(c, k) ==
    /\ k.kind = "createPurchaseReturn" /\ k.pc = "then"
    /\ state' = [state EXCEPT ![c] = fetchData(state[c])]
    /\ settle(c, k)
    /\ ret' = NoRet
    /\ UNCHANGED <<db, opCount, failed>>

\* ------------------------------------------------------------ users
\* addUser(userData)
AddUser(c, username) ==
    IF username \in state[c].users
    THEN /\ Return("addUser", c, FALSE, "username taken")
         /\ UNCHANGED <<state, db, calls, opCount, failed>>
    ELSE /\ calls' = [calls EXCEPT ![c] = calls[c] \cup
                        {[id |-> opCount + 1, before |-> snapshot(c), kind |-> "addUser",
                          pc |-> "insert", username |-> username]}]
         /\ opCount' = opCount + 1
         /\ ret' = NoRet
         /\ UNCHANGED <<state, db, failed>>

\* api.addUser: from('users').insert(...)
ApiAddUser(c, k) ==
    /\ k.kind = "addUser" /\ k.pc = "insert"
    /\ db' = [db EXCEPT !.users = @ \cup {k.username}]
    /\ advance(c, k, "then")
    /\ ret' = NoRet
    /\ UNCHANGED <<state, opCount, failed>>

\* setState(prev => ({...prev, users: [...prev.users, newUser]}))
AddUserThen(c, k) ==
    /\ k.kind = "addUser" /\ k.pc = "then"
    /\ state' = [state EXCEPT ![c].users = @ \cup {k.username}]
    /\ settle(c, k)
    /\ Return("addUser", c, TRUE, "")
    /\ UNCHANGED <<db, opCount, failed>>

\* ------------------------------------------------------------ backup and restore
\* JSON.stringify(state, null, 2), read back by JSON.parse: the fields of AppState
\* (those of the document that clearAndRestoreData and the claims look at)
stringify(st) ==
    [products |-> st.products, saleInvoices |-> st.saleInvoices,
     purchaseInvoices |-> st.purchaseInvoices, customers |-> st.customers,
     suppliers |-> st.suppliers, employees |-> st.employees,
     customerTransactions |-> st.customerTransactions,
     supplierTransactions |-> st.supplierTransactions,
     payrollTransactions |-> st.payrollTransactions, expenses |-> st.expenses,
     users |-> st.users]

\* exportData()
ExportData(c) ==
    /\ state' = [state EXCEPT ![c].backupFile = {stringify(state[c])}]
    /\ state' # state
    /\ Return("exportData", c, TRUE, "")
    /\ UNCHANGED <<db, calls, opCount, failed>>

\* importData(file), the confirm dialog accepted: api.clearAndRestoreData(data)
ImportData(c) ==
    /\ state[c].backupFile # {}
    /\ LET data == CHOOSE d \in state[c].backupFile : TRUE
       IN calls' = [calls EXCEPT ![c] = calls[c] \cup
                      {[id |-> opCount + 1, before |-> snapshot(c),
                        kind |-> "clearAndRestoreData", pc |-> "clear", data |-> data]}]
    /\ opCount' = opCount + 1
    /\ Return("importData", c, TRUE, "")
    /\ UNCHANGED <<state, db, failed>>

noRows == [x \in {} |-> 0]

\* for (const table of tablesToDelete) from(table).delete().neq('id', dummy)
RestoreClear(c, k) ==
    /\ k.kind = "clearAndRestoreData" /\ k.pc = "clear"
    /\ db' = [db EXCEPT !.product_batches = <<>>,
                        !.customer_transactions = {},
                        !.supplier_transactions = {},
                        !.payroll_transactions = {},
                        !.expenses = {},
                        !.sale_invoices = {},
                        !.purchase_invoices = {},
                        !.products = {},
                        !.customers = noRows,
                        !.suppliers = noRows,
                        !.employees = noRows]
    /\ advance(c, k, "base")
    /\ ret' = NoRet
    /\ UNCHANGED <<state, opCount, failed>>

\* the base entities inserted without their balances
RestoreBaseNoBalance(c, k) ==
    /\ k.kind = "clearAndRestoreData" /\ k.pc = "base"
    /\ db' = [db EXCEPT !.customers = [x \in DOMAIN k.data.customers |-> 0],
                        !.suppliers = [x \in DOMAIN k.data.suppliers |-> 0],
                        !.employees = [x \in DOMAIN k.data.employees |-> 0],
                        !.expenses = k.data.expenses]
    /\ advance(c, k, "products")
    /\ ret' = NoRet
    /\ UNCHANGED <<state, opCount, failed>>

\* Base Entities: customers, suppliers and employees with their balances,
\* and the expenses
RestoreBase(c, k) ==
    /\ k.kind = "clearAndRestoreData" /\ k.pc = "base"
    /\ db' = [db EXCEPT !.customers = k.data.customers,
                        !.suppliers = k.data.suppliers,
                        !.employees = k.data.employees,
                        !.expenses = k.data.expenses]
    /\ advance(c, k, "products")
    /\ ret' = NoRet
    /\ UNCHANGED <<state, opCount, failed>>

\* productsData: one row per product of the document
productsData(products) == {products[i].productId : i \in 1..Len(products)}

\* data.products.flatMap(p => p.batches.map(b => ...)): the batches product by
\* product, in the order of the products
RECURSIVE flatMapBatches(_)
flatMapBatches(products) ==
    IF products = <<>> THEN <<>>
    ELSE LET p == Head(products).productId
         IN SelectSeq(products, LAMBDA b : b.productId = p)
            \o flatMapBatches(SelectSeq(products, LAMBDA b : b.productId # p))

RestoreProducts(c, k) ==
    /\ k.kind = "clearAndRestoreData" /\ k.pc = "products"
    /\ db' = [db EXCEPT !.products = productsData(k.data.products)]
    /\ advance(c, k, "batches")
    /\ ret' = NoRet
    /\ UNCHANGED <<state, opCount, failed>>

RestoreBatches(c, k) ==
    /\ k.kind = "clearAndRestoreData" /\ k.pc = "batches"
    /\ db' = [db EXCEPT !.product_batches = batchesData(flatMapBatches(k.data.products))]
    /\ advance(c, k, "saleInvoices")
    /\ ret' = NoRet
    /\ UNCHANGED <<state, opCount, failed>>

\* salesData, then saleItemsData
RestoreSaleInvoices(c, k) ==
    /\ k.kind = "clearAndRestoreData" /\ k.pc = "saleInvoices"
    /\ db' = [db EXCEPT !.sale_invoices =
                {saleInvoiceRow(i, <<>>) : i \in k.data.saleInvoices}]
    /\ advance(c, k, "saleItems")
    /\ ret' = NoRet
    /\ UNCHANGED <<state, opCount, failed>>

RestoreSaleItems(c, k) ==
    /\ k.kind = "clearAndRestoreData" /\ k.pc = "saleItems"
    /\ db' = [db EXCEPT !.sale_invoices =
                {[r EXCEPT !.items =
                     saleItemsData(findInvoice(k.data.saleInvoices, r.id).items)] : r \in @}]
    /\ advance(c, k, "purchaseInvoices")
    /\ ret' = NoRet
    /\ UNCHANGED <<state, opCount, failed>>

\* purchasesData, then purchaseItemsData
RestorePurchaseInvoices(c, k) ==
    /\ k.kind = "clearAndRestoreData" /\ k.pc = "purchaseInvoices"
    /\ db' = [db EXCEPT !.purchase_invoices =
                {[purchaseInvoiceRow(i) EXCEPT !.items = <<>>] : i \in k.data.purchaseInvoices}]
    /\ advance(c, k, "purchaseItems")
    /\ ret' = NoRet
    /\ UNCHANGED <<state, opCount, failed>>

RestorePurchaseItems(c, k) ==
    /\ k.kind = "clearAndRestoreData" /\ k.pc = "purchaseItems"
    /\ db' = [db EXCEPT !.purchase_invoices =
                {[r EXCEPT !.items =
                     purchaseItemsData(findInvoice(k.data.purchaseInvoices, r.id).items)]
                 : r \in @}]
    /\ advance(c, k, "transactions")
    /\ ret' = NoRet
    /\ UNCHANGED <<state, opCount, failed>>

\* Transactions & Activity
RestoreTransactions(c, k) ==
    /\ k.kind = "clearAndRestoreData" /\ k.pc = "transactions"
    /\ db' = [db EXCEPT
                !.customer_transactions =
                    {customerTransactionRow(t) : t \in k.data.customerTransactions},
                !.supplier_transactions =
                    {supplierTransactionRow(t) : t \in k.data.supplierTransactions},
                !.payroll_transactions =
                    {payrollTransactionRow(t) : t \in k.data.payrollTransactions}]
    /\ advance(c, k, "then")
    /\ ret' = NoRet
    /\ UNCHANGED <<state, opCount, failed>>

\* importData: await fetchData() after api.clearAndRestoreData has resolved
ImportDataThen(c, k) ==
    /\ k.kind = "clearAndRestoreData" /\ k.pc = "then"
    /\ state' = [state EXCEPT ![c] = fetchData(state[c])]
    /\ settle(c, k)
    /\ Return("importData", c, TRUE, "restored")
    /\ UNCHANGED <<db, opCount, failed>>

\* ------------------------------------------------------------ inputs
Quantities == 0..MaxQty
CustomerChoices == Customers \cup {none}       \* selectedCustomerId || undefined
Amounts == {1, 2}                               \* payment amounts
Rates == {2}                                    \* exchange rates typed for USD
Currencies == {"AFN", "USD"}
FinalPrices == {1, 4}                           \* prices typed over the list price

\* POS ReturnModal: one line of the invoice, 0 < quantity <= item.quantity
SaleReturnItems(invoice) ==
    UNION {{<<[id |-> invoice.items[i].id, quantity |-> q]>> :
                q \in 1..Min(MaxQty, invoice.items[i].quantity)} :
           i \in 1..Len(invoice.items)}

\* Purchases ReturnModal: one line of the invoice, quantity > 0 (max is not enforced)
PurchaseReturnItems(invoice) ==
    {<<[productId |-> invoice.items[i].productId, quantity |-> q]>> :
        i \in 1..Len(invoice.items), q \in 1..MaxQty}

\* Purchases handleSaveInvoice, new invoice: one line
NewPurchaseData ==
    {[supplierId |-> s, currency |-> cur,
      exchangeRate |-> r, timestamp |-> 3,
      items |-> <<[productId |-> p, quantity |-> q, purchasePrice |-> 1,
                   lotNumber |-> "L1", expiryDate |-> 0]>>] :
        s \in Suppliers, cur \in Currencies, r \in Rates, p \in Products, q \in 1..2}

\* Purchases handleSaveInvoice, new invoice of one or two lines, in AFN or in USD
\* at a rate of 2 or 3
PostingLines ==
    {[productId |-> p, quantity |-> q, purchasePrice |-> u,
      lotNumber |-> "L3", expiryDate |-> 0] :
        p \in Products, q \in 1..2, u \in 1..2}

PostingData ==
    {[supplierId |-> "s1", currency |-> cur, exchangeRate |-> r, timestamp |-> 3,
      items |-> ls] :
        cur \in Currencies, r \in {2, 3},
        ls \in {<<l>> : l \in PostingLines}
              \cup {<<l, m>> : l \in {x \in PostingLines : x.productId = "p1"},
                              m \in {x \in PostingLines : x.productId = "p2"}}}

\* Purchases handleEditClick + handleSaveInvoice: the invoice's lines as loaded,
\* with supplier and quantity as typed
EditPurchaseData(invoice) ==
    {[supplierId |-> s, currency |-> invoice.currency,
      exchangeRate |-> IF invoice.currency = "USD" THEN invoice.exchangeRate ELSE 1,
      items |-> [i \in 1..Len(invoice.items) |-> [invoice.items[i] EXCEPT !.quantity = q]]] :
        s \in Suppliers, q \in 1..MaxQty}

\* ------------------------------------------------------------ next-state relations
\* no call of client c is in flight
Quiescent(c) == calls[c] = {}

\* client c is at the keyboard: its last call has settled, and the behaviour has
\* adapter calls left
Idle(c) == Quiescent(c) /\ opCount < MaxOps

\* client c is on another page than the POS page, with no sale being prepared
OffPos(c) ==
    Idle(c) /\ state[c].cart = <<>> /\ state[c].editingSaleInvoiceId = NoInvoice

Cashier == "A"

\* one cashier working the POS page and posting purchases, waiting for each call
\* to settle before the next action
Next ==
    \/ \E p \in Products : Idle(Cashier) /\ AddToCart(Cashier, p)
    \/ \E p \in Products, q \in Quantities :
          Idle(Cashier) /\ UpdateCartItemQuantity(Cashier, p, q)
    \/ \E p \in Products : Idle(Cashier) /\ RemoveFromCart(Cashier, p)
    \/ \E i \in state[Cashier].saleInvoices :
          Idle(Cashier) /\ i.type = "sale" /\ BeginEditSale(Cashier, i.id)
    \/ /\ Idle(Cashier) /\ state[Cashier].editingSaleInvoiceId # NoInvoice
       /\ CancelEditSale(Cashier)
    \/ \E k \in CustomerChoices : Idle(Cashier) /\ CompleteSale(Cashier, k)
    \/ \E i \in state[Cashier].saleInvoices :
          /\ Idle(Cashier) /\ i.type = "sale"
          /\ \E ris \in SaleReturnItems(i) : AddSaleReturn(Cashier, i.id, ris)
    \/ \E k \in Customers, a \in Amounts :
          OffPos(Cashier) /\ AddCustomerPayment(Cashier, k, a)
    \/ \E d \in NewPurchaseData : OffPos(Cashier) /\ AddPurchaseInvoice(Cashier, d)
    \/ \E k \in calls[Cashier] : CreateSaleInsert(Cashier, k)
    \/ \E k \in calls[Cashier] : CreateSaleFails(Cashier, k)
    \/ \E k \in calls[Cashier] : CreateSaleStock(Cashier, k)
    \/ \E k \in calls[Cashier] : CreateSaleCustomer(Cashier, k)
    \/ \E k \in calls[Cashier] : CreateSaleThen(Cashier, k)
    \/ \E k \in calls[Cashier] : UpdateSaleRestore(Cashier, k)
    \/ \E k \in calls[Cashier] : UpdateSaleDeduct(Cashier, k)
    \/ \E k \in calls[Cashier] : UpdateSaleHeader(Cashier, k)
    \/ \E k \in calls[Cashier] : UpdateSaleFails(Cashier, k)
    \/ \E k \in calls[Cashier] : UpdateSaleCustomer(Cashier, k)
    \/ \E k \in calls[Cashier] : UpdateSaleThen(Cashier, k)
    \/ \E k \in calls[Cashier] : CreateSaleReturnInsert(Cashier, k)
    \/ \E k \in calls[Cashier] : CreateSaleReturnFails(Cashier, k)
    \/ \E k \in calls[Cashier] : CreateSaleReturnRestore(Cashier, k)
    \/ \E k \in calls[Cashier] : CreateSaleReturnCustomer(Cashier, k)
    \/ \E k \in calls[Cashier] : CreateSaleReturnThen(Cashier, k)
    \/ \E k \in calls[Cashier] : ProcessPaymentWrite(Cashier, k)
    \/ \E k \in calls[Cashier] : ProcessPaymentThen(Cashier, k)
    \/ \E k \in calls[Cashier] : CreatePurchaseInsert(Cashier, k)
    \/ \E k \in calls[Cashier] : CreatePurchaseFails(Cashier, k)
    \/ \E k \in calls[Cashier] : CreatePurchasePost(Cashier, k)
    \/ \E k \in calls[Cashier] : CreatePurchaseThen(Cashier, k)

Spec == Init /\ [][Next]_vars

\* ---- two clients, each waiting for its own calls: one sells p1 at its POS page
\* while the other edits sales of p1
Turn(c) == Quiescent(c) /\ opCount < MaxRaceOps
Editor == "A"
Seller == "B"

NextTwoClients ==
    \/ Turn(Seller) /\ AddToCart(Seller, "p1")
    \/ \E q \in Quantities : Turn(Seller) /\ UpdateCartItemQuantity(Seller, "p1", q)
    \/ Turn(Seller) /\ CompleteSale(Seller, none)
    \/ \E k \in calls[Seller] : CreateSaleInsert(Seller, k)
    \/ \E k \in calls[Seller] : CreateSaleStock(Seller, k)
    \/ \E k \in calls[Seller] : CreateSaleThen(Seller, k)
    \/ \E i \in state[Editor].saleInvoices :
          Turn(Editor) /\ i.type = "sale" /\ BeginEditSale(Editor, i.id)
    \/ \E q \in Quantities : Turn(Editor) /\ UpdateCartItemQuantity(Editor, "p1", q)
    \/ Turn(Editor) /\ CompleteSale(Editor, none)
    \/ \E k \in calls[Editor] : UpdateSaleRestore(Editor, k)
    \/ \E k \in calls[Editor] : UpdateSaleDeduct(Editor, k)
    \/ \E k \in calls[Editor] : UpdateSaleHeader(Editor, k)
    \/ \E k \in calls[Editor] : UpdateSaleThen(Editor, k)

SpecTwoClients == Init /\ [][NextTwoClients]_vars

\* ---- one client that does not wait for a call to settle before the next action
NextOverlap ==
    \/ opCount < MaxOps /\ AddToCart(Cashier, "p1")
    \/ opCount < MaxOps /\ CompleteSale(Cashier, none)
    \/ \E i \in state[Cashier].saleInvoices :
          /\ opCount < MaxOps /\ i.type = "sale"
          /\ \E ris \in SaleReturnItems(i) : AddSaleReturn(Cashier, i.id, ris)
    \/ \E d \in NewPurchaseData :
          /\ opCount < MaxOps /\ d.supplierId = "s1" /\ d.currency = "AFN"
          /\ AddPurchaseInvoice(Cashier, d)
    \/ \E k \in calls[Cashier] : CreateSaleInsert(Cashier, k)
    \/ \E k \in calls[Cashier] : CreateSaleFails(Cashier, k)
    \/ \E k \in calls[Cashier] : CreateSaleStock(Cashier, k)
    \/ \E k \in calls[Cashier] : CreateSaleThen(Cashier, k)
    \/ \E k \in calls[Cashier] : CreateSaleReturnInsert(Cashier, k)
    \/ \E k \in calls[Cashier] : CreateSaleReturnFails(Cashier, k)
    \/ \E k \in calls[Cashier] : CreateSaleReturnRestore(Cashier, k)
    \/ \E k \in calls[Cashier] : CreateSaleReturnThen(Cashier, k)
    \/ \E k \in calls[Cashier] : CreatePurchaseInsert(Cashier, k)
    \/ \E k \in calls[Cashier] : CreatePurchaseFails(Cashier, k)
    \/ \E k \in calls[Cashier] : CreatePurchasePost(Cashier, k)
    \/ \E k \in calls[Cashier] : CreatePurchaseThen(Cashier, k)

SpecOverlap == Init /\ [][NextOverlap]_vars

\* ---- one client, waiting for each call to settle, on a network where any
\* remote write may return an error
NextFailure ==
    \/ \E p \in Products : Idle(Cashier) /\ AddToCart(Cashier, p)
    \/ \E i \in state[Cashier].saleInvoices :
          Idle(Cashier) /\ i.type = "sale" /\ BeginEditSale(Cashier, i.id)
    \/ \E k \in CustomerChoices : Idle(Cashier) /\ CompleteSale(Cashier, k)
    \/ \E d \in NewPurchaseData :
          OffPos(Cashier) /\ d.currency = "AFN" /\ AddPurchaseInvoice(Cashier, d)
    \/ \E k \in calls[Cashier] : CreateSaleInsert(Cashier, k)
    \/ \E k \in calls[Cashier] : CreateSaleHeaderOnly(Cashier, k)
    \/ \E k \in calls[Cashier] : CreateSaleFails(Cashier, k)
    \/ \E k \in calls[Cashier] : CreateSaleStock(Cashier, k)
    \/ \E k \in calls[Cashier] : CreateSaleCustomer(Cashier, k)
    \/ \E k \in calls[Cashier] : CreateSaleLedgerFails(Cashier, k)
    \/ \E k \in calls[Cashier] : CreateSaleThen(Cashier, k)
    \/ \E k \in calls[Cashier] : UpdateSaleRestore(Cashier, k)
    \/ \E k \in calls[Cashier] : UpdateSaleDeduct(Cashier, k)
    \/ \E k \in calls[Cashier] : UpdateSaleHeader(Cashier, k)
    \/ \E k \in calls[Cashier] : UpdateSaleFails(Cashier, k)
    \/ \E k \in calls[Cashier] : UpdateSaleCustomer(Cashier, k)
    \/ \E k \in calls[Cashier] : UpdateSaleThen(Cashier, k)
    \/ \E k \in calls[Cashier] : CreatePurchaseInsert(Cashier, k)
    \/ \E k \in calls[Cashier] : CreatePurchaseHeaderOnly(Cashier, k)
    \/ \E k \in calls[Cashier] : CreatePurchaseFails(Cashier, k)
    \/ \E k \in calls[Cashier] : CreatePurchasePost(Cashier, k)
    \/ \E k \in calls[Cashier] : CreatePurchaseThen(Cashier, k)

SpecFailure == Init /\ [][NextFailure]_vars

\* ---- one client posting purchase invoices, waiting for each call to settle
NextPosting ==
    \/ \E d \in PostingData : Idle(Cashier) /\ AddPurchaseInvoice(Cashier, d)
    \/ \E k \in calls[Cashier] : CreatePurchaseInsert(Cashier, k)
    \/ \E k \in calls[Cashier] : CreatePurchaseFails(Cashier, k)
    \/ \E k \in calls[Cashier] : CreatePurchasePost(Cashier, k)
    \/ \E k \in calls[Cashier] : CreatePurchaseThen(Cashier, k)

SpecPosting == Init /\ [][NextPosting]_vars

\* ---- two clients, each waiting for its own calls, both selling p1 for cash and
\* both taking payments from customer k1; a client may load the page again
Racing(c) == Quiescent(c) /\ opCount < MaxRaceCalls

NextRace ==
    \/ \E c \in Clients : Racing(c) /\ state[c].cart = <<>> /\ AddToCart(c, "p1")
    \/ \E c \in Clients : Racing(c) /\ CompleteSale(c, none)
    \/ \E c \in Clients :
          Racing(c) /\ state[c].cart = <<>> /\ AddCustomerPayment(c, "k1", 1)
    \/ \E c \in Clients : Quiescent(c) /\ Reload(c)
    \/ \E c \in Clients : \E k \in calls[c] : CreateSaleInsert(c, k)
    \/ \E c \in Clients : \E k \in calls[c] :
          /\ k.kind = "createSale" /\ hasInvoice(db.sale_invoices, k.invoice.id)
          /\ CreateSaleFails(c, k)
    \/ \E c \in Clients : \E k \in calls[c] : CreateSaleStock(c, k)
    \/ \E c \in Clients : \E k \in calls[c] : CreateSaleThen(c, k)
    \/ \E c \in Clients : \E k \in calls[c] : ProcessPaymentWrite(c, k)
    \/ \E c \in Clients : \E k \in calls[c] : ProcessPaymentThen(c, k)

SpecRace == Init /\ [][NextRace]_vars

\* ---- one client posting credit sales, payments and advances without waiting for
\* a call to settle before the next action
NextLedger ==
    \/ opCount < MaxOps /\ AddToCart(Cashier, "p1")
    \/ opCount < MaxOps /\ CompleteSale(Cashier, "k1")
    \/ \E a \in Amounts : opCount < MaxOps /\ AddCustomerPayment(Cashier, "k1", a)
    \/ \E a \in Amounts, cur \in Currencies, r \in Rates :
          /\ opCount < MaxOps
          /\ AddSupplierPayment(Cashier, "s1", a, cur, IF cur = "USD" THEN r ELSE 1)
    \/ \E e \in Employees, a \in Amounts :
          opCount < MaxOps /\ AddEmployeeAdvance(Cashier, e, a)
    \/ \E k \in calls[Cashier] : CreateSaleInsert(Cashier, k)
    \/ \E k \in calls[Cashier] : CreateSaleFails(Cashier, k)
    \/ \E k \in calls[Cashier] : CreateSaleStock(Cashier, k)
    \/ \E k \in calls[Cashier] : CreateSaleCustomer(Cashier, k)
    \/ \E k \in calls[Cashier] : CreateSaleThen(Cashier, k)
    \/ \E k \in calls[Cashier] : ProcessPaymentWrite(Cashier, k)
    \/ \E k \in calls[Cashier] : ProcessPaymentThen(Cashier, k)

SpecLedger == Init /\ [][NextLedger]_vars

\* one user settling accounts and deleting products, customers and suppliers,
\* waiting for each call to settle before the next action
Deleting(c) == Quiescent(c) /\ opCount < MaxDeleteOps

NextDelete ==
    \/ \E a \in Amounts :
          /\ Deleting(Cashier) /\ "k1" \in DOMAIN state[Cashier].customers
          /\ AddCustomerPayment(Cashier, "k1", a)
    \/ \E a \in Amounts :
          /\ Deleting(Cashier) /\ "s1" \in DOMAIN state[Cashier].suppliers
          /\ AddSupplierPayment(Cashier, "s1", a, "AFN", 1)
    \/ \E p \in Products : Deleting(Cashier) /\ DeleteProduct(Cashier, p)
    \/ \E id \in Customers : Deleting(Cashier) /\ DeleteCustomer(Cashier, id)
    \/ \E id \in Suppliers : Deleting(Cashier) /\ DeleteSupplier(Cashier, id)
    \/ \E k \in calls[Cashier] : ProcessPaymentWrite(Cashier, k)
    \/ \E k \in calls[Cashier] : ProcessPaymentThen(Cashier, k)
    \/ \E k \in calls[Cashier] : ApiDelete(Cashier, k)
    \/ \E k \in calls[Cashier] : ApiDeleteFails(Cashier, k)
    \/ \E k \in calls[Cashier] : DeleteThen(Cashier, k)

SpecDelete == Init /\ [][NextDelete]_vars

\* ---- one client on the Purchases and Suppliers pages, waiting for each call
NextPurchase ==
    \/ \E d \in NewPurchaseData :
          /\ Idle(Cashier) /\ state[Cashier].editingPurchaseInvoiceId = NoInvoice
          /\ AddPurchaseInvoice(Cashier, d)
    \/ \E i \in state[Cashier].purchaseInvoices :
          /\ Idle(Cashier) /\ i.type = "purchase"
          /\ state[Cashier].editingPurchaseInvoiceId = NoInvoice
          /\ BeginEditPurchase(Cashier, i.id)
    \/ /\ Idle(Cashier) /\ state[Cashier].editingPurchaseInvoiceId # NoInvoice
       /\ CancelEditPurchase(Cashier)
    \/ /\ Idle(Cashier)
       /\ hasInvoice(state[Cashier].purchaseInvoices, state[Cashier].editingPurchaseInvoiceId)
       /\ \E d \in EditPurchaseData(findInvoice(state[Cashier].purchaseInvoices,
                                                state[Cashier].editingPurchaseInvoiceId)) :
             UpdatePurchaseInvoice(Cashier, d)
    \/ \E i \in state[Cashier].purchaseInvoices :
          /\ Idle(Cashier) /\ i.type = "purchase"
          /\ state[Cashier].editingPurchaseInvoiceId = NoInvoice
          /\ \E ris \in PurchaseReturnItems(i) : AddPurchaseReturn(Cashier, i.id, ris)
    \/ \E x \in Suppliers, a \in Amounts, cur \in Currencies, r \in Rates :
          /\ Idle(Cashier) /\ state[Cashier].editingPurchaseInvoiceId = NoInvoice
          /\ AddSupplierPayment(Cashier, x, a, cur, IF cur = "USD" THEN r ELSE 1)
    \/ \E k \in calls[Cashier] : CreatePurchaseInsert(Cashier, k)
    \/ \E k \in calls[Cashier] : CreatePurchaseFails(Cashier, k)
    \/ \E k \in calls[Cashier] : CreatePurchasePost(Cashier, k)
    \/ \E k \in calls[Cashier] : CreatePurchaseThen(Cashier, k)
    \/ \E k \in calls[Cashier] : UpdatePurchaseHeader(Cashier, k)
    \/ \E k \in calls[Cashier] : UpdatePurchaseSupplier(Cashier, k)
    \/ \E k \in calls[Cashier] : UpdatePurchaseThen(Cashier, k)
    \/ \E k \in calls[Cashier] : CreatePurchaseReturnInsert(Cashier, k)
    \/ \E k \in calls[Cashier] : CreatePurchaseReturnStock(Cashier, k)
    \/ \E k \in calls[Cashier] : CreatePurchaseReturnSupplier(Cashier, k)
    \/ \E k \in calls[Cashier] : CreatePurchaseReturnThen(Cashier, k)
    \/ \E k \in calls[Cashier] : ProcessPaymentWrite(Cashier, k)
    \/ \E k \in calls[Cashier] : ProcessPaymentThen(Cashier, k)

SpecPurchase == Init /\ [][NextPurchase]_vars

\* ---- one client selling, taking payments and adding users, who downloads a backup
\* ---- and later imports it; each call settles before the next action
Importing(c) == Quiescent(c) /\ opCount < MaxImportOps

NextImport ==
    \/ Quiescent(Cashier) /\ ExportData(Cashier)
    \/ Importing(Cashier) /\ state[Cashier].cart = <<>> /\ AddToCart(Cashier, "p1")
    \/ \E x \in {none, "k1"} :
          Importing(Cashier) /\ state[Cashier].cart # <<>> /\ CompleteSale(Cashier, x)
    \/ /\ Importing(Cashier) /\ state[Cashier].cart = <<>>
       /\ AddCustomerPayment(Cashier, "k1", 1)
    \/ /\ Importing(Cashier) /\ state[Cashier].cart = <<>>
       /\ AddUser(Cashier, "u2")
    \/ Importing(Cashier) /\ state[Cashier].cart = <<>> /\ ImportData(Cashier)
    \/ \E k \in calls[Cashier] : CreateSaleInsert(Cashier, k)
    \/ \E k \in calls[Cashier] : CreateSaleStock(Cashier, k)
    \/ \E k \in calls[Cashier] : CreateSaleCustomer(Cashier, k)
    \/ \E k \in calls[Cashier] : CreateSaleThen(Cashier, k)
    \/ \E k \in calls[Cashier] : ProcessPaymentWrite(Cashier, k)
    \/ \E k \in calls[Cashier] : ProcessPaymentThen(Cashier, k)
    \/ \E k \in calls[Cashier] : ApiAddUser(Cashier, k)
    \/ \E k \in calls[Cashier] : AddUserThen(Cashier, k)
    \/ \E k \in calls[Cashier] : RestoreClear(Cashier, k)
    \/ \E k \in calls[Cashier] : RestoreBase(Cashier, k)
    \/ \E k \in calls[Cashier] : RestoreProducts(Cashier, k)
    \/ \E k \in calls[Cashier] : RestoreBatches(Cashier, k)
    \/ \E k \in calls[Cashier] : RestoreSaleInvoices(Cashier, k)
    \/ \E k \in calls[Cashier] : RestoreSaleItems(Cashier, k)
    \/ \E k \in calls[Cashier] : RestorePurchaseInvoices(Cashier, k)
    \/ \E k \in calls[Cashier] : RestorePurchaseItems(Cashier, k)
    \/ \E k \in calls[Cashier] : RestoreTransactions(Cashier, k)
    \/ \E k \in calls[Cashier] : ImportDataThen(Cashier, k)

SpecImport == Init /\ [][NextImport]_vars

\* ---- one client creating sales, sale returns, purchases and purchase returns and
\* ---- editing sales, waiting for each call to settle before the next action
Numbering(c) == Quiescent(c) /\ opCount < MaxIdOps

NextIds ==
    \/ Numbering(Cashier) /\ state[Cashier].cart = <<>> /\ AddToCart(Cashier, "p1")
    \/ \E i \in state[Cashier].saleInvoices :
          /\ Numbering(Cashier) /\ i.type = "sale" /\ state[Cashier].cart = <<>>
          /\ BeginEditSale(Cashier, i.id)
    \/ \E x \in {none, "k1"} :
          Numbering(Cashier) /\ state[Cashier].cart # <<>> /\ CompleteSale(Cashier, x)
    \/ \E i \in state[Cashier].saleInvoices :
          /\ Numbering(Cashier) /\ i.type = "sale" /\ state[Cashier].cart = <<>>
          /\ AddSaleReturn(Cashier, i.id, <<[id |-> i.items[1].id, quantity |-> 1]>>)
    \/ /\ Numbering(Cashier) /\ state[Cashier].cart = <<>>
       /\ AddPurchaseInvoice(Cashier,
             [supplierId |-> "s1", currency |-> "AFN", exchangeRate |-> 1, timestamp |-> 3,
              items |-> <<[productId |-> "p1", quantity |-> 1, purchasePrice |-> 1,
                           lotNumber |-> "L1", expiryDate |-> 0]>>])
    \/ \E i \in state[Cashier].purchaseInvoices :
          /\ Numbering(Cashier) /\ i.type = "purchase" /\ state[Cashier].cart = <<>>
          /\ AddPurchaseReturn(Cashier, i.id,
                <<[productId |-> i.items[1].productId, quantity |-> 1]>>)
    \/ \E k \in calls[Cashier] : CreateSaleInsert(Cashier, k)
    \/ \E k \in calls[Cashier] : CreateSaleStock(Cashier, k)
    \/ \E k \in calls[Cashier] : CreateSaleCustomer(Cashier, k)
    \/ \E k \in calls[Cashier] : CreateSaleThen(Cashier, k)
    \/ \E k \in calls[Cashier] : UpdateSaleRestore(Cashier, k)
    \/ \E k \in calls[Cashier] : UpdateSaleDeduct(Cashier, k)
    \/ \E k \in calls[Cashier] : UpdateSaleHeader(Cashier, k)
    \/ \E k \in calls[Cashier] : UpdateSaleCustomer(Cashier, k)
    \/ \E k \in calls[Cashier] : UpdateSaleThen(Cashier, k)
    \/ \E k \in calls[Cashier] : CreateSaleReturnInsert(Cashier, k)
    \/ \E k \in calls[Cashier] : CreateSaleReturnRestore(Cashier, k)
    \/ \E k \in calls[Cashier] : CreateSaleReturnCustomer(Cashier, k)
    \/ \E k \in calls[Cashier] : CreateSaleReturnThen(Cashier, k)
    \/ \E k \in calls[Cashier] : CreatePurchaseInsert(Cashier, k)
    \/ \E k \in calls[Cashier] : CreatePurchasePost(Cashier, k)
    \/ \E k \in calls[Cashier] : CreatePurchaseThen(Cashier, k)
    \/ \E k \in calls[Cashier] : CreatePurchaseReturnInsert(Cashier, k)
    \/ \E k \in calls[Cashier] : CreatePurchaseReturnStock(Cashier, k)
    \/ \E k \in calls[Cashier] : CreatePurchaseReturnSupplier(Cashier, k)
    \/ \E k \in calls[Cashier] : CreatePurchaseReturnThen(Cashier, k)

SpecIds == Init /\ [][NextIds]_vars

\* ---- one client selling at list prices or at prices typed over them, and taking
\* ---- returns, waiting for each call to settle before the next action
Pricing(c) == Quiescent(c) /\ opCount < MaxPriceOps

NextPrices ==
    \/ \E p \in Products : Pricing(Cashier) /\ AddToCart(Cashier, p)
    \/ \E p \in Products, f \in FinalPrices :
          /\ Pricing(Cashier)
          /\ \E i \in 1..Len(state[Cashier].cart) :
                /\ state[Cashier].cart[i].id = p
                /\ "finalPrice" \notin DOMAIN state[Cashier].cart[i]
          /\ UpdateCartItemFinalPrice(Cashier, p, f)
    \/ \E x \in {none, "k1"} :
          Pricing(Cashier) /\ state[Cashier].cart # <<>> /\ CompleteSale(Cashier, x)
    \/ \E i \in state[Cashier].saleInvoices :
          /\ Pricing(Cashier) /\ i.type = "sale" /\ state[Cashier].cart = <<>>
          /\ \E ris \in SaleReturnItems(i) : AddSaleReturn(Cashier, i.id, ris)
    \/ \E k \in calls[Cashier] : CreateSaleInsert(Cashier, k)
    \/ \E k \in calls[Cashier] : CreateSaleStock(Cashier, k)
    \/ \E k \in calls[Cashier] : CreateSaleCustomer(Cashier, k)
    \/ \E k \in calls[Cashier] : CreateSaleThen(Cashier, k)
    \/ \E k \in calls[Cashier] : CreateSaleReturnInsert(Cashier, k)
    \/ \E k \in calls[Cashier] : CreateSaleReturnRestore(Cashier, k)
    \/ \E k \in calls[Cashier] : CreateSaleReturnCustomer(Cashier, k)
    \/ \E k \in calls[Cashier] : CreateSaleReturnThen(Cashier, k)

SpecPrices == Init /\ [][NextPrices]_vars

\* ------------------------------------------------------------ quantities read off the store
\* signed sum of customer x's ledger rows: credit_sale - payment - sale_return
customerLedgerSum(rows, x) ==
    SetSum({t \in rows : t.customer_id = x /\ t.type = "credit_sale"})
    - SetSum({t \in rows : t.customer_id = x /\ t.type = "payment"})
    - SetSum({t \in rows : t.customer_id = x /\ t.type = "sale_return"})

\* signed sum of supplier x's ledger rows: purchase - payment - purchase_return
supplierLedgerSum(rows, x) ==
    SetSum({t \in rows : t.supplier_id = x /\ t.type = "purchase"})
    - SetSum({t \in rows : t.supplier_id = x /\ t.type = "payment"})
    - SetSum({t \in rows : t.supplier_id = x /\ t.type = "purchase_return"})

\* quantity of product p on the lines of one sale / purchase invoice row
saleLinesQty(row, p) ==
    SeqSum([i \in 1..Len(row.items) |->
               IF row.items[i].item_id = p THEN row.items[i].quantity ELSE 0])

purchaseLinesQty(row, p) ==
    SeqSum([i \in 1..Len(row.items) |->
               IF row.items[i].product_id = p THEN row.items[i].quantity ELSE 0])

RECURSIVE saleRowsQty(_, _)
saleRowsQty(rows, p) ==
    IF rows = {} THEN 0
    ELSE LET r == CHOOSE x \in rows : TRUE
         IN saleLinesQty(r, p) + saleRowsQty(rows \ {r}, p)

RECURSIVE purchaseRowsQty(_, _)
purchaseRowsQty(rows, p) ==
    IF rows = {} THEN 0
    ELSE LET r == CHOOSE x \in rows : TRUE
         IN purchaseLinesQty(r, p) + purchaseRowsQty(rows \ {r}, p)

soldIn(d, p) == saleRowsQty({r \in d.sale_invoices : r.type = "sale"}, p)
returnedIn(d, p) == saleRowsQty({r \in d.sale_invoices : r.type = "return"}, p)
purchasedIn(d, p) == purchaseRowsQty({r \in d.purchase_invoices : r.type = "purchase"}, p)

\* the call k of client c settles in this step: resolved after its last await
\* (pc = "then") or rejected at an earlier one
Settles(c, k) == k \in calls[c] /\ \A k2 \in calls'[c] : k2.id # k.id
Resolves(c, k) == Settles(c, k) /\ k.pc = "then"
Rejects(c, k) == Settles(c, k) /\ k.pc # "then"

\* this step is a call of completeSale by client c
IsCompleteSale(c) == ret'.op = "completeSale" /\ ret'.client = c

\* ------------------------------------------------------------ C1
\* some line of the cart asks for more than the product's total stock
ExceedsStock(st) ==
    \E i \in 1..Len(st.cart) :
        st.cart[i].quantity > totalStock(st.products, st.cart[i].id)

\* C1: completeSale on a cart with a line whose quantity exceeds the total stock
\* of its product's batches returns failure and issues no adapter call: local
\* and remote state are unchanged.
C1_InsufficientStockRejected ==
    [][\A c \in Clients :
          (IsCompleteSale(c) /\ ExceedsStock(state[c]))
              => /\ ~ret'.success
                 /\ calls' = calls /\ db' = db /\ state' = state]_vars

\* ------------------------------------------------------------ C2
\* batch a comes before batch b in the stated order: expiry dates ascending, then
\* the batches without expiry date by purchase date ascending
Earlier(a, b) ==
    \/ a.expiryDate # 0 /\ b.expiryDate = 0
    \/ a.expiryDate # 0 /\ b.expiryDate # 0 /\ a.expiryDate < b.expiryDate
    \/ a.expiryDate = 0 /\ b.expiryDate = 0 /\ a.purchaseDate < b.purchaseDate

\* the call completeSale has just issued
issued(c) == CHOOSE k \in calls'[c] : k \notin calls[c]

\* the stock the issued call leaves in batch b
stockAfter(k, b) ==
    IF k.kind = "createSale" THEN stockOf(k.updatedProducts, b.id)
    ELSE LET ds == SelectSeq(k.stockDeductions, LAMBDA d : d.batchId = b.id)
         IN b.stock - SeqSum([i \in 1..Len(ds) |-> ds[i].quantity])

FifoLine(k, products, line) ==
    LET bs == batchesOf(products, line.id)
    IN /\ \A i, j \in 1..Len(bs) :
             (Earlier(bs[i], bs[j]) /\ stockAfter(k, bs[j]) < bs[j].stock)
                 => stockAfter(k, bs[i]) = 0
       /\ SeqSum([i \in 1..Len(bs) |-> bs[i].stock - stockAfter(k, bs[i])]) = line.quantity

\* C2: for every line of an accepted sale the quantity is taken from the
\* product's batches in the stated order: a batch is reduced only when every
\* batch before it is left at zero, and the reductions sum to the quantity.
C2_FifoDeduction ==
    [][\A c \in Clients :
          (IsCompleteSale(c) /\ ret'.success)
              => \A i \in 1..Len(state[c].cart) :
                    FifoLine(issued(c), state[c].products, state[c].cart[i])]_vars

\* ------------------------------------------------------------ C5
\* C5: every batch's stock in the remote store is >= 0 in every reachable state.
C5_RemoteStockNonNegative ==
    \A j \in 1..Len(db.product_batches) : db.product_batches[j].stock >= 0

\* ------------------------------------------------------------ C3
\* C3: for every customer, whenever no action is in flight and no remote call has
\* failed, the stored balance equals the sum of its credit_sale ledger rows minus
\* the sum of its payment and sale_return ledger rows.
C3_CustomerBalanceIsLedgerSum ==
    ((\A c \in Clients : Quiescent(c)) /\ ~failed)
        => \A x \in Customers :
              db.customers[x] = customerLedgerSum(db.customer_transactions, x)

\* ------------------------------------------------------------ C4
\* C4: for every supplier, whenever no action is in flight and no remote call has
\* failed, the stored balance equals the sum of its purchase ledger rows minus
\* the sum of its payment and purchase_return ledger rows.
C4_SupplierBalanceIsLedgerSum ==
    ((\A c \in Clients : Quiescent(c)) /\ ~failed)
        => \A x \in Suppliers :
              db.suppliers[x] = supplierLedgerSum(db.supplier_transactions, x)

\* ------------------------------------------------------------ C6
\* the product's initial total plus the quantities purchased minus the quantities
\* sold plus the quantities returned by customers since
expectedStock(p) ==
    totalStock(mapProduct(InitBatches), p)
    + (purchasedIn(db, p) - purchasedIn(InitDb(none), p))
    - (soldIn(db, p) - soldIn(InitDb(none), p))
    + returnedIn(db, p)

\* C6: single client, no failed call, no action in flight: each product's total
\* stock in the store equals its initial total plus the quantities purchased
\* minus the quantities sold plus the quantities returned by customers.
C6_StockConservation ==
    (Quiescent(Cashier) /\ ~failed)
        => \A p \in Products :
              totalStock(mapProduct(db.product_batches), p) = expectedStock(p)

\* ------------------------------------------------------------ C7
\* C7: when an edit of a credit sale that keeps the invoice's customer resolves,
\* the customer's stored balance is B - T1 + T2, where B is the stored balance and
\* T1 the stored invoice total when the edit was invoked and T2 the stored
\* invoice total after it.
storedInvoice(d, id) == CHOOSE r \in d.sale_invoices : r.id = id

KeepsCustomer(k) ==
    /\ k.kind = "updateSale"
    /\ hasInvoice(k.before.db.sale_invoices, k.invoiceId)
    /\ storedInvoice(k.before.db, k.invoiceId).customer_id # none
    /\ k.newInvoiceData.customerId = storedInvoice(k.before.db, k.invoiceId).customer_id

C7_EditAdjustsBalanceByDifference ==
    [][\A c \in Clients : \A k \in calls[c] :
          (Resolves(c, k) /\ KeepsCustomer(k))
              => LET x == k.newInvoiceData.customerId
                 IN db'.customers[x] =
                        k.before.db.customers[x]
                        - storedInvoice(k.before.db, k.invoiceId).total_amount
                        + storedInvoice(db', k.invoiceId).total_amount]_vars

\* an edit that kept the customer and changed the total has resolved
C7_Witness ==
    /\ Quiescent(Cashier) /\ ~failed /\ opCount = 1
    /\ storedInvoice(db, F1).customer_id = "k1"
    /\ storedInvoice(db, F1).total_amount = 6
    /\ db.customers["k1"] = 6

\* ------------------------------------------------------------ C8
\* quantity of product p on the invoice being edited
originalQty(st, p) ==
    IF hasInvoice(st.saleInvoices, st.editingSaleInvoiceId)
    THEN LET items == findInvoice(st.saleInvoices, st.editingSaleInvoiceId).items
         IN SeqSum([i \in 1..Len(items) |-> IF items[i].id = p THEN items[i].quantity ELSE 0])
    ELSE 0

\* C8: saving an edited sale in which every line's quantity is at most the
\* product's current total stock plus the product's quantity on the original
\* invoice is accepted (not rejected as insufficient stock).
C8_EditUsesRestoredStock ==
    [][\A c \in Clients :
          (/\ IsCompleteSale(c)
           /\ state[c].editingSaleInvoiceId # NoInvoice
           /\ state[c].cart # <<>>
           /\ \A i \in 1..Len(state[c].cart) :
                 state[c].cart[i].quantity
                     <= totalStock(state[c].products, state[c].cart[i].id)
                        + originalQty(state[c], state[c].cart[i].id))
              => ret'.success]_vars

\* ------------------------------------------------------------ C9
\* C9: when the adapter call of an action is rejected, the client's local state
\* equals its local state when the action was invoked.
C9_FailureLeavesLocalState ==
    [][\A c \in Clients : \A k \in calls[c] :
          Rejects(c, k) => state'[c] = k.before.state]_vars

\* ------------------------------------------------------------ C10
\* what the create path's optimistic update writes
saleView(st) ==
    [saleInvoices |-> st.saleInvoices, products |-> st.products,
     customers |-> st.customers, customerTransactions |-> st.customerTransactions,
     cart |-> st.cart]

\* C10: a step after which a createSale call of client c is still in flight (the
\* call of completeSale itself, and every await of createSale) leaves c's
\* saleInvoices, products, customers, customerTransactions and cart unchanged.
C10_CreatePathUpdatesAfterResolve ==
    [][\A c \in Clients :
          (\E k \in calls'[c] : k.kind = "createSale")
              => saleView(state'[c]) = saleView(state[c])]_vars

\* createSale has written the invoice, the stock and the balance; the client's
\* mirror still shows none of it
C10_Witness ==
    \E k \in calls[Cashier] :
        /\ k.kind = "createSale" /\ k.pc = "then"
        /\ k.customerUpdate # <<>>
        /\ hasInvoice(db.sale_invoices, k.invoice.id)
        /\ ~hasInvoice(state[Cashier].saleInvoices, k.invoice.id)
        /\ state[Cashier].cart # <<>>
        /\ mapProduct(db.product_batches) # state[Cashier].products
        /\ db.customers # state[Cashier].customers

\* ------------------------------------------------------------ C11
\* the call k of client c writes its party's balance and ledger row in this step
WritesBalance(c, k) ==
    /\ k \in calls[c]
    /\ \/ k.kind = "processPayment" /\ k.pc = "write"
       \/ k.kind = "createSale" /\ k.pc = "customer"
    /\ [k EXCEPT !.pc = "then"] \in calls'[c]

\* the table of the party of call k, its party, and the signed amount of the action
partyTable(k) ==
    IF k.kind = "createSale" THEN "customer" ELSE k.entityType
partyOf(k) ==
    IF k.kind = "createSale" THEN k.invoice.customerId ELSE k.entityId
signedAmount(k) ==
    IF k.kind = "createSale" THEN k.invoice.totalAmount
    ELSE IF k.entityType = "customer" THEN 0 - k.transaction.amount
    ELSE IF k.entityType = "supplier" THEN 0 - k.transaction.amount * k.exchangeRate
    ELSE k.transaction.amount

\* balances go from b to b2 by adding d to party x only
OnlyAdds(b, b2, x, d) == b2 = [b EXCEPT ![x] = @ + d]

\* ledger goes from rows to rows2 by one new row, of party x (field f)
OneRowAppended(rows, rows2, f, x) ==
    /\ rows \subseteq rows2
    /\ Cardinality(rows2 \ rows) = 1
    /\ \A t \in rows2 \ rows : t[f] = x

\* C11: the step in which a credit sale (create path), customer payment, supplier
\* payment or employee advance is applied changes the stored balance of exactly
\* its party by exactly its amount, relative to the stored balance at that time,
\* and appends exactly one ledger row for that party.
C11_BalanceMovesByAmount ==
    [][\A c \in Clients : \A k \in calls[c] :
          WritesBalance(c, k) =>
             LET x == partyOf(k)
                 d == signedAmount(k)
                 tab == partyTable(k)
             IN /\ IF tab = "customer"
                   THEN /\ OnlyAdds(db.customers, db'.customers, x, d)
                        /\ OneRowAppended(db.customer_transactions,
                                          db'.customer_transactions, "customer_id", x)
                   ELSE /\ db'.customers = db.customers
                        /\ db'.customer_transactions = db.customer_transactions
                /\ IF tab = "supplier"
                   THEN /\ OnlyAdds(db.suppliers, db'.suppliers, x, d)
                        /\ OneRowAppended(db.supplier_transactions,
                                          db'.supplier_transactions, "supplier_id", x)
                   ELSE /\ db'.suppliers = db.suppliers
                        /\ db'.supplier_transactions = db.supplier_transactions
                /\ IF tab = "employee"
                   THEN /\ OnlyAdds(db.employees, db'.employees, x, d)
                        /\ OneRowAppended(db.payroll_transactions,
                                          db'.payroll_transactions, "employee_id", x)
                   ELSE /\ db'.employees = db.employees
                        /\ db'.payroll_transactions = db.payroll_transactions]_vars

\* ------------------------------------------------------------ C12
\* the call k of client c writes its batch stocks in this step
WritesStock(c, k) ==
    /\ k \in calls[c] /\ k.kind = "createSale" /\ k.pc = "stock"
    /\ \E k2 \in calls'[c] : k2.id = k.id /\ k2.pc # "stock"

\* what completeSale computes from the state st the client held when it was called
stocksFrom(st) == prepareSale(st.cart, st.products, <<>>).updatedProducts

\* C12: an initial sale writes, for every batch it takes from, the stock computed
\* from the state the client held when completeSale was called, and a customer
\* payment writes the balance computed from that state, whatever the store holds
\* at the time of the write.
C12_WritesFromStaleReading ==
    [][\A c \in Clients : \A k \in calls[c] :
          /\ WritesStock(c, k) =>
                \A i \in 1..Len(k.stockUpdates) :
                    stockOf(mapProduct(db'.product_batches), k.stockUpdates[i].batchId)
                        = stockOf(stocksFrom(k.before.state), k.stockUpdates[i].batchId)
          /\ (WritesBalance(c, k) /\ k.kind = "processPayment"
                                  /\ k.entityType = "customer") =>
                db'.customers[k.entityId]
                    = k.before.state.customers[k.entityId] - k.transaction.amount]_vars

\* two cash sales of one p1 each and two payments of customer k1 have all
\* resolved without failure, and the stored stock of p1 and the stored balance of
\* k1 each reflect only one of the two changes
C12_Witness ==
    /\ \A c \in Clients : Quiescent(c)
    /\ ~failed
    /\ soldIn(db, "p1") = soldIn(InitDb(none), "p1") + 2
    /\ totalStock(mapProduct(db.product_batches), "p1")
          = totalStock(mapProduct(InitBatches), "p1") - 1
    /\ \E t1, t2 \in db.customer_transactions :
          /\ t1 # t2 /\ t1.type = "payment" /\ t2.type = "payment"
          /\ t1.customer_id = "k1" /\ t2.customer_id = "k1"
          /\ Cardinality({t \in db.customer_transactions : t.type = "payment"}) = 2
          /\ db.customers["k1"]
                = customerLedgerSum(db.customer_transactions, "k1") + t1.amount

\* ------------------------------------------------------------ C13
\* what the earlier writes of the rejected call k have left in the store d
EarlierWritesIn(k, d) ==
    /\ (k.kind = "createSale" /\ k.pc = "items")
          => hasInvoice(d.sale_invoices, k.invoice.id)
    /\ (k.kind = "createPurchase" /\ k.pc = "items")
          => hasInvoice(d.purchase_invoices, k.invoice.id)
    /\ (k.kind = "updateSale" /\ k.pc = "header")
          => \A p \in Products :
                totalStock(mapProduct(d.product_batches), p)
                    = totalStock(mapProduct(k.before.db.product_batches), p)
                      + SeqSum([i \in 1..Len(k.stockRestores) |->
                                  IF k.stockRestores[i].productId = p
                                  THEN k.stockRestores[i].quantity ELSE 0])
                      - SeqSum([i \in 1..Len(k.stockDeductions) |->
                                  IF \E j \in 1..Len(d.product_batches) :
                                        /\ d.product_batches[j].id = k.stockDeductions[i].batchId
                                        /\ d.product_batches[j].product_id = p
                                  THEN k.stockDeductions[i].quantity ELSE 0])

\* C13: when a remote write of a multi-step action fails after earlier writes of
\* the same action, the step in which the call settles writes nothing to the
\* store (no compensating write), and the rows written earlier are still there.
C13_NoRollback ==
    [][\A c \in Clients : \A k \in calls[c] :
          /\ Settles(c, k) => db' = db
          /\ Rejects(c, k) => EarlierWritesIn(k, db')]_vars

\* a createSale was rejected at its item insert: the call has settled and the
\* header row it had inserted is in the store, without lines, while no stock and
\* no balance was written
C13_Witness ==
    /\ Quiescent(Cashier) /\ failed
    /\ \E r \in db.sale_invoices : r.id # F1 /\ r.type = "sale" /\ r.items = <<>>
    /\ db.product_batches = InitBatches
    /\ \A r \in state[Cashier].saleInvoices : r.id = F1

\* ------------------------------------------------------------ C14
\* the batch tables that result from adding, for each returned line in turn, its
\* quantity to one batch of its product and leaving every other batch as it is
RECURSIVE oneBatchEach(_, _)
oneBatchEach(rows, restores) ==
    IF restores = <<>> THEN {rows}
    ELSE LET r == Head(restores)
             found == {j \in 1..Len(rows) : rows[j].product_id = r.productId}
         IN IF found = {} THEN oneBatchEach(rows, Tail(restores))
            ELSE UNION {oneBatchEach([rows EXCEPT ![j].stock = @ + r.quantity],
                                     Tail(restores)) : j \in found}

\* C14: when addSaleReturn's call resolves, the store holds one new invoice, of
\* type return and linked to the original invoice, every invoice it held before
\* is unchanged, and each returned quantity has been added to one batch of its
\* product (the one the query returned), the product's other batches unchanged.
C14_ReturnCreatesLinkedInvoice ==
    [][\A c \in Clients : \A k \in calls[c] :
          (Resolves(c, k) /\ k.kind = "createSaleReturn") =>
             LET b == k.before.db
                 new == db'.sale_invoices \ b.sale_invoices
             IN /\ b.sale_invoices \subseteq db'.sale_invoices
                /\ Cardinality(new) = 1
                /\ \A r \in new :
                      /\ r.id = k.returnInvoice.id
                      /\ r.type = "return"
                      /\ r.original_invoice_id = k.returnInvoice.originalInvoiceId
                      /\ hasInvoice(b.sale_invoices, r.original_invoice_id)
                /\ db'.product_batches
                      \in oneBatchEach(b.product_batches, k.stockRestores)]_vars

\* a return of the one unit of p1 sold on F1 has resolved: the return invoice R1
\* is in the store, linked to F1, and p1 has one unit more than before
C14_Witness ==
    /\ Quiescent(Cashier) /\ ~failed /\ opCount = 1
    /\ \E r \in db.sale_invoices :
          r.type = "return" /\ r.original_invoice_id = F1 /\ saleLinesQty(r, "p1") = 1
    /\ totalStock(mapProduct(db.product_batches), "p1")
          = totalStock(mapProduct(InitBatches), "p1") + 1
    /\ state[Cashier].saleInvoices = {mapSaleInvoice(r) : r \in db.sale_invoices}

\* ------------------------------------------------------------ C15
\* the rate of the entered invoice e (1 for AFN) and its totals
enteredRate(e) == IF e.currency = "USD" THEN e.exchangeRate ELSE 1
enteredTotal(e) ==
    SeqSum([i \in 1..Len(e.items) |-> e.items[i].quantity * e.items[i].purchasePrice])
baseTotal(e) ==
    SeqSum([i \in 1..Len(e.items) |->
               e.items[i].quantity * e.items[i].purchasePrice * enteredRate(e)])

C16_LedgerAppendOnly ==
    [][/\ db.customer_transactions \subseteq db'.customer_transactions
       /\ db.supplier_transactions \subseteq db'.supplier_transactions
       /\ db.payroll_transactions \subseteq db'.payroll_transactions]_vars

\* ------------------------------------------------------------ C17
\* a sale or purchase invoice line names the product; an invoice or a ledger row
\* names the customer or the supplier
referenced(entityType, id) ==
    IF entityType = "product"
    THEN \/ \E r \in db.sale_invoices :
              \E i \in 1..Len(r.items) : r.items[i].item_id = id
         \/ \E r \in db.purchase_invoices :
              \E i \in 1..Len(r.items) : r.items[i].product_id = id
    ELSE IF entityType = "customer"
    THEN \/ \E r \in db.sale_invoices : r.customer_id = id
         \/ \E t \in db.customer_transactions : t.customer_id = id
    ELSE \/ \E r \in db.purchase_invoices : r.supplier_id = id
         \/ \E t \in db.supplier_transactions : t.supplier_id = id

\* C17: a product, customer or supplier that an invoice or a ledger row refers to
\* is never deleted: no step takes its row away, and no step issues a delete call
\* for it or drops it from a client's state.
C17_ReferencedNeverDeleted ==
    [][/\ \A p \in db.products : referenced("product", p) => p \in db'.products
       /\ \A x \in DOMAIN db.customers :
             referenced("customer", x) => x \in DOMAIN db'.customers
       /\ \A x \in DOMAIN db.suppliers :
             referenced("supplier", x) => x \in DOMAIN db'.suppliers
       /\ \A c \in Clients : \A k \in calls'[c] \ calls[c] :
             (k.kind = "delete" /\ k.pc = "delete")
                => ~referenced(k.entityType, k.entityId)
       /\ \A c \in Clients :
             /\ \A x \in DOMAIN state[c].customers :
                   referenced("customer", x) => x \in DOMAIN state'[c].customers
             /\ \A x \in DOMAIN state[c].suppliers :
                   referenced("supplier", x) => x \in DOMAIN state'[c].suppliers]_vars

\* ------------------------------------------------------------ C18
editingOf(st) == st.editingSaleInvoiceId

\* the step is a save in edit mode that completeSale accepted
SavesEdit(c) ==
    /\ ret'.op = "completeSale" /\ ret'.client = c /\ ret'.success
    /\ editingOf(state[c]) # NoInvoice

\* C18: the editing id of a client becomes non-null only by a successful
\* beginEditSale, which loads the lines of that invoice into the cart, and
\* becomes null again only by an accepted save in edit mode or by cancelEditSale;
\* after either of the two the id is null and the cart is empty, and a save that
\* validation rejects leaves the id and the cart as they were.
C18_EditingLifecycle ==
    [][\A c \in Clients :
         LET before == state[c]
             after == state'[c]
         IN /\ (editingOf(after) # editingOf(before) /\ editingOf(after) # NoInvoice)
                 => /\ ret'.op = "beginEditSale" /\ ret'.client = c /\ ret'.success
                    /\ hasInvoice(before.saleInvoices, editingOf(after))
                    /\ after.cart = findInvoice(before.saleInvoices, editingOf(after)).items
            /\ (ret'.op = "beginEditSale" /\ ret'.client = c)
                 => IF ret'.success THEN editingOf(after) # NoInvoice
                    ELSE after = before
            /\ (editingOf(before) # NoInvoice /\ editingOf(after) = NoInvoice)
                 => \/ SavesEdit(c)
                    \/ ret'.op = "cancelEditSale" /\ ret'.client = c
            /\ (SavesEdit(c) \/ (ret'.op = "cancelEditSale" /\ ret'.client = c))
                 => editingOf(after) = NoInvoice /\ after.cart = <<>>
            /\ (ret'.op = "completeSale" /\ ret'.client = c /\ ~ret'.success)
                 => /\ editingOf(after) = editingOf(before)
                    /\ after.cart = before.cart]_vars

\* an edit of a stored invoice has just been saved
C18_Witness ==
    /\ ret.op = "completeSale" /\ ret.success /\ ret.message = "edit"
    /\ state[ret.client].editingSaleInvoiceId = NoInvoice
    /\ state[ret.client].cart = <<>>
    /\ \E k \in calls[ret.client] : k.kind = "updateSale"

\* ------------------------------------------------------------ C19
F2 == [prefix |-> "F", num |-> 2]
F3 == [prefix |-> "F", num |-> 3]

\* the products with their batches, the invoices with their lines, the party
\* balances and the ledger entries of a state are those of a document
sameBooks(st, d) ==
    /\ \A p \in Products : batchesOf(st.products, p) = batchesOf(d.products, p)
    /\ st.saleInvoices = d.saleInvoices
    /\ st.purchaseInvoices = d.purchaseInvoices
    /\ st.customers = d.customers
    /\ st.suppliers = d.suppliers
    /\ st.employees = d.employees
    /\ st.customerTransactions = d.customerTransactions
    /\ st.supplierTransactions = d.supplierTransactions
    /\ st.payrollTransactions = d.payrollTransactions

refsPresent(d) ==
    /\ \A i \in 1..Len(d.product_batches) : d.product_batches[i].product_id \in d.products
    /\ \A r \in d.sale_invoices :
          /\ r.customer_id \in DOMAIN d.customers \cup {none}
          /\ \A i \in 1..Len(r.items) : r.items[i].item_id \in d.products
    /\ \A r \in d.purchase_invoices :
          /\ r.supplier_id \in DOMAIN d.suppliers
          /\ \A i \in 1..Len(r.items) : r.items[i].product_id \in d.products
    /\ \A t \in d.customer_transactions :
          /\ t.customer_id \in DOMAIN d.customers
          /\ t.invoice_id = NoInvoice \/ hasInvoice(d.sale_invoices, t.invoice_id)
    /\ \A t \in d.supplier_transactions :
          /\ t.supplier_id \in DOMAIN d.suppliers
          /\ t.invoice_id = NoInvoice \/ hasInvoice(d.purchase_invoices, t.invoice_id)
    /\ \A t \in d.payroll_transactions : t.employee_id \in DOMAIN d.employees

\* no table of d holds a row that the document does not hold
onlyRowsOf(d, data) ==
    /\ d.products \subseteq productsData(data.products)
    /\ Range(d.product_batches) \subseteq Range(batchesData(data.products))
    /\ {r.id : r \in d.sale_invoices} \subseteq {i.id : i \in data.saleInvoices}
    /\ {r.id : r \in d.purchase_invoices} \subseteq {i.id : i \in data.purchaseInvoices}
    /\ DOMAIN d.customers \subseteq DOMAIN data.customers
    /\ DOMAIN d.suppliers \subseteq DOMAIN data.suppliers
    /\ DOMAIN d.employees \subseteq DOMAIN data.employees
    /\ {t.id : t \in d.customer_transactions} \subseteq {t.id : t \in data.customerTransactions}
    /\ {t.id : t \in d.supplier_transactions} \subseteq {t.id : t \in data.supplierTransactions}
    /\ {t.id : t \in d.payroll_transactions} \subseteq {t.id : t \in data.payrollTransactions}
    /\ d.users \subseteq data.users

\* C20: clearAndRestoreData takes rows away only in its first step and only
\* inserts afterwards, no row stands in the store before the row it names, and
\* when the last insert has been made no table holds a row that is not in the
\* document.
C20_WipeThenReinsert ==
    [][\A c \in Clients : \A k \in calls[c] :
         k.kind = "clearAndRestoreData" =>
            /\ k.pc = "clear" =>
                  /\ db'.products \subseteq db.products
                  /\ Range(db'.product_batches) \subseteq Range(db.product_batches)
                  /\ db'.sale_invoices \subseteq db.sale_invoices
                  /\ db'.purchase_invoices \subseteq db.purchase_invoices
                  /\ db'.customer_transactions \subseteq db.customer_transactions
                  /\ db'.supplier_transactions \subseteq db.supplier_transactions
                  /\ db'.payroll_transactions \subseteq db.payroll_transactions
            /\ k.pc # "clear" =>
                  /\ db.products \subseteq db'.products
                  /\ Range(db.product_batches) \subseteq Range(db'.product_batches)
                  /\ {r.id : r \in db.sale_invoices} \subseteq {r.id : r \in db'.sale_invoices}
                  /\ {r.id : r \in db.purchase_invoices}
                        \subseteq {r.id : r \in db'.purchase_invoices}
                  /\ db.customer_transactions \subseteq db'.customer_transactions
                  /\ db.supplier_transactions \subseteq db'.supplier_transactions
                  /\ db.payroll_transactions \subseteq db'.payroll_transactions
            /\ refsPresent(db')
            /\ k.pc = "transactions" => onlyRowsOf(db', k.data)]_vars

\* ---- one cashier selling p1 out of two batches bought at different unit costs
NextCost ==
    \/ Quiescent(Cashier) /\ opCount < MaxOps /\ AddToCart(Cashier, "p1")
    \/ /\ Quiescent(Cashier) /\ opCount < MaxOps /\ state[Cashier].cart # <<>>
       /\ CompleteSale(Cashier, none)
    \/ \E k \in calls[Cashier] : CreateSaleInsert(Cashier, k)
    \/ \E k \in calls[Cashier] : CreateSaleStock(Cashier, k)
    \/ \E k \in calls[Cashier] : CreateSaleThen(Cashier, k)

SpecCost == InitCost /\ [][NextCost]_vars

\* ---- one user giving advances and running the payroll, waiting for each call
NextPayroll ==
    \/ \E e \in Staff, a \in Amounts :
          /\ Quiescent(Cashier) /\ opCount < MaxPayrollOps
          /\ AddEmployeeAdvance(Cashier, e, a)
    \/ Quiescent(Cashier) /\ opCount < MaxPayrollOps /\ ProcessAndPaySalaries(Cashier)
    \/ \E k \in calls[Cashier] : ProcessPaymentWrite(Cashier, k)
    \/ \E k \in calls[Cashier] : ProcessPaymentThen(Cashier, k)
    \/ \E k \in calls[Cashier] : ProcessPayrollReset(Cashier, k)
    \/ \E k \in calls[Cashier] : ProcessPayrollTransactions(Cashier, k)
    \/ \E k \in calls[Cashier] : ProcessPayrollExpense(Cashier, k)
    \/ \E k \in calls[Cashier] : ProcessPayrollThen(Cashier, k)

SpecPayroll == InitPayroll /\ [][NextPayroll]_vars

\* ------------------------------------------------------------ C21
\* one more than the largest number among the ids of that prefix, 1 when none
nextNumber(prefix, ids) ==
    IF \E i \in ids : i.prefix = prefix
    THEN 1 + CHOOSE n \in {i.num : i \in ids} :
                /\ \E i \in ids : i.prefix = prefix /\ i.num = n
                /\ \A i \in ids : i.prefix = prefix => i.num <= n
    ELSE 1

\* the invoice that a call issued by an action is to create, with the ids the
\* client held when the action was invoked
createdBy(k) ==
    IF k.kind = "createSale"
    THEN <<[id |-> k.invoice.id, prefix |-> "F",
            ids |-> {i.id : i \in k.before.state.saleInvoices}]>>
    ELSE IF k.kind = "createSaleReturn"
    THEN <<[id |-> k.returnInvoice.id, prefix |-> "R",
            ids |-> {i.id : i \in k.before.state.saleInvoices}]>>
    ELSE IF k.kind = "createPurchase"
    THEN <<[id |-> k.invoice.id, prefix |-> "P",
            ids |-> {i.id : i \in k.before.state.purchaseInvoices}]>>
    ELSE IF k.kind = "createPurchaseReturn"
    THEN <<[id |-> k.returnInvoice.id, prefix |-> "PR",
            ids |-> {i.id : i \in k.before.state.purchaseInvoices}]>>
    ELSE <<>>

listTotal(items) ==
    SeqSum([i \in 1..Len(items) |-> items[i].salePrice * items[i].quantity])

effectiveTotal(items) ==
    SeqSum([i \in 1..Len(items) |->
               (IF "finalPrice" \in DOMAIN items[i] THEN items[i].finalPrice
                ELSE items[i].salePrice) * items[i].quantity])

\* the invoice that completeSale or addSaleReturn hands to its call
producedBy(k) ==
    IF k.kind = "createSale" THEN <<k.invoice>>
    ELSE IF k.kind = "updateSale" THEN <<k.newInvoiceData>>
    ELSE IF k.kind = "createSaleReturn" THEN <<k.returnInvoice>>
    ELSE <<>>

\* C22: every invoice that completeSale or addSaleReturn produces has
\* totalAmount = subtotal - totalDiscount, with subtotal the sum of list price x
\* quantity of its lines and totalAmount the sum of effective price x quantity
\* (so totalDiscount is negative when the set prices raise the total).
C22_TotalIsSubtotalMinusDiscount ==
    [][\A c \in Clients : \A k \in calls'[c] \ calls[c] :
         k.id = opCount + 1 =>
            \A inv \in Range(producedBy(k)) :
               /\ inv.totalAmount = inv.subtotal - inv.totalDiscount
               /\ inv.subtotal = listTotal(inv.items)
               /\ inv.totalAmount = effectiveTotal(inv.items)]_vars

\* ------------------------------------------------------------ C23
\* total stock of product p over the product_batches rows of the tables d
storeStock(d, p) == totalStock(mapProduct(d.product_batches), p)

\* C23: when the call of a sale edit resolves, each product's total stock in the
\* store is its total when the edit was invoked plus its quantity on the invoice
\* as stored then minus its quantity on the invoice as stored now.
C23_EditStockDelta ==
    [][\A c \in Clients : \A k \in calls[c] :
         (Resolves(c, k) /\ k.kind = "updateSale")
            => \A p \in Products :
                  storeStock(db', p)
                     = storeStock(k.before.db, p)
                       + saleLinesQty(storedInvoice(k.before.db, k.invoiceId), p)
                       - saleLinesQty(storedInvoice(db', k.invoiceId), p)]_vars

\* an edit that raised the quantity of a line to three units, taken from two
\* batches, has made all its writes
C23_Witness ==
    \E k \in calls[Cashier] :
        /\ k.kind = "updateSale" /\ k.pc = "then"
        /\ Len(k.stockDeductions) = 2
        /\ saleLinesQty(storedInvoice(k.before.db, k.invoiceId), "p1") = 1
        /\ saleLinesQty(storedInvoice(db, k.invoiceId), "p1") = 3

\* ------------------------------------------------------------ C24
\* the edit names another customer than the stored invoice, or none
ChangesCustomer(k) ==
    /\ k.kind = "updateSale"
    /\ hasInvoice(k.before.db.sale_invoices, k.invoiceId)
    /\ storedInvoice(k.before.db, k.invoiceId).customer_id # none
    /\ k.newInvoiceData.customerId # storedInvoice(k.before.db, k.invoiceId).customer_id

\* C24: when an edit that takes the invoice from customer A to customer B (or to
\* no customer) resolves, A's stored balance is its balance when the edit was
\* invoked minus the stored invoice total of that time and, when B is set, B's
\* stored balance is its former balance plus the new total and the ledger holds
\* a credit_sale row of B for the invoice.
C24_EditMovesDebtToNewCustomer ==
    [][\A c \in Clients : \A k \in calls[c] :
          (Resolves(c, k) /\ ChangesCustomer(k))
              => LET old == storedInvoice(k.before.db, k.invoiceId)
                     a == old.customer_id
                     b == k.newInvoiceData.customerId
                 IN /\ db'.customers[a] = k.before.db.customers[a] - old.total_amount
                    /\ b # none =>
                          /\ db'.customers[b] =
                                k.before.db.customers[b] + k.newInvoiceData.totalAmount
                          /\ \E t \in db'.customer_transactions :
                                /\ t.customer_id = b
                                /\ t.invoice_id = k.invoiceId
                                /\ t.type = "credit_sale"]_vars

\* the part of C24 that the code keeps: the new customer's balance grows by the
\* new total
C24_NewCustomerCharged ==
    [][\A c \in Clients : \A k \in calls[c] :
          (Resolves(c, k) /\ ChangesCustomer(k) /\ k.newInvoiceData.customerId # none)
              => LET b == k.newInvoiceData.customerId
                 IN db'.customers[b] =
                        k.before.db.customers[b] + k.newInvoiceData.totalAmount]_vars

\* ------------------------------------------------------------ C25
\* the return invoices of the store that name the invoice id as their original
returnsOf(d, id) ==
    {r \in d.sale_invoices : r.type = "return" /\ r.original_invoice_id = id}

\* C25: for every sale invoice in the store and every product on it, the
\* quantities of that product on the return invoices linked to the invoice sum
\* to at most the quantity sold on it.
C25_ReturnsWithinSold ==
    \A s \in db.sale_invoices : \A p \in Products :
        (s.type = "sale" /\ saleLinesQty(s, p) > 0)
            => saleRowsQty(returnsOf(db, s.id), p) <= saleLinesQty(s, p)

\* ------------------------------------------------------------ C26
\* the stock of every batch, by batch id
stocksOf(products) == {<<products[i].id, products[i].stock>> : i \in 1..Len(products)}

\* C26: single client, no failed call: whenever no action is in flight the
\* client's state agrees with the store on the stock of every batch and on the
\* balance of every customer, supplier and employee.
C26_MirrorAgreesWhenQuiescent ==
    (Quiescent(Cashier) /\ ~failed)
        => /\ stocksOf(state[Cashier].products) = stocksOf(mapProduct(db.product_batches))
           /\ state[Cashier].customers = db.customers
           /\ state[Cashier].suppliers = db.suppliers
           /\ state[Cashier].employees = db.employees

\* ------------------------------------------------------------ C27
\* the units a sale takes from the batches of product p, each at the unit
\* purchase price of its batch, read off the stock writes of its call and the
\* products the client held when the sale was made
deductedValue(k, p) ==
    LET products == k.before.state.products
        own == SelectSeq(k.stockUpdates,
                         LAMBDA u : \E i \in 1..Len(products) :
                                        products[i].id = u.batchId /\ products[i].productId = p)
        priceOf(batchId) ==
            products[CHOOSE i \in 1..Len(products) : products[i].id = batchId].purchasePrice
    IN SeqSum([i \in 1..Len(own) |->
                 (stockOf(products, own[i].batchId) - own[i].newStock)
                    * priceOf(own[i].batchId)])

\* C27: for every line of the invoice of a sale, the unit cost stored on the line
\* times the line's quantity is the sum over the batches of units taken x the
\* batch's unit purchase price (the product as the program's numbers compute it).
C27_UnitCostTimesQuantity ==
    \A c \in Clients : \A k \in calls[c] :
        k.kind = "createSale"
            => \A i \in 1..Len(k.invoice.items) :
                  multiply(k.invoice.items[i].purchasePrice, k.invoice.items[i].quantity)
                      = Number(deductedValue(k, k.invoice.items[i].id))

\* the equation of C27 for the sales whose total cost is a whole multiple of the
\* quantity
C27_ExactWhenDivisible ==
    \A c \in Clients : \A k \in calls[c] :
        k.kind = "createSale"
            => \A i \in 1..Len(k.invoice.items) :
                  LET item == k.invoice.items[i]
                  IN (item.quantity > 0 /\ deductedValue(k, item.id) % item.quantity = 0)
                        => multiply(item.purchasePrice, item.quantity)
                              = Number(deductedValue(k, item.id))

\* ------------------------------------------------------------ C28
storedPurchase(d, id) == CHOOSE r \in d.purchase_invoices : r.id = id

\* a purchase return of one product whose original invoice is in the store
ReturnsPurchase(k) ==
    /\ k.kind = "createPurchaseReturn"
    /\ Len(k.returnInvoice.items) = 1
    /\ hasInvoice(k.before.db.purchase_invoices, k.returnInvoice.originalInvoiceId)
    /\ \E i \in 1..Len(storedPurchase(k.before.db, k.returnInvoice.originalInvoiceId).items) :
          storedPurchase(k.before.db, k.returnInvoice.originalInvoiceId).items[i].product_id
              = k.returnInvoice.items[1].productId

\* C28: when the call of a purchase return of q units of a product resolves, the
\* store holds one new purchase invoice, of type return and linked to the
\* original; one batch of that product and of the original line's lot number (the
\* one the query returned) holds q units less, or none when it held fewer, every
\* other batch is as before (all of them when no batch matches), and the
\* supplier's stored balance is smaller by q x the original line's unit cost.
C28_PurchaseReturn ==
    [][\A c \in Clients : \A k \in calls[c] :
          (Resolves(c, k) /\ ReturnsPurchase(k))
              => LET old == k.before.db
                     original == storedPurchase(old, k.returnInvoice.originalInvoiceId)
                     p == k.returnInvoice.items[1].productId
                     q == k.returnInvoice.items[1].quantity
                     line == original.items[CHOOSE i \in 1..Len(original.items) :
                                 /\ original.items[i].product_id = p
                                 /\ \A j \in 1..(i - 1) : original.items[j].product_id # p]
                     matching == {j \in 1..Len(old.product_batches) :
                                     /\ old.product_batches[j].product_id = p
                                     /\ old.product_batches[j].lot_number = line.lot_number}
                 IN /\ \E r \in db'.purchase_invoices :
                          /\ db'.purchase_invoices = old.purchase_invoices \cup {r}
                          /\ r \notin old.purchase_invoices
                          /\ r.type = "return"
                          /\ r.original_invoice_id = original.id
                    /\ Len(db'.product_batches) = Len(old.product_batches)
                    /\ IF matching = {} THEN db'.product_batches = old.product_batches
                       ELSE \E j \in matching :
                              \A i \in 1..Len(old.product_batches) :
                                 db'.product_batches[i] =
                                    IF i # j THEN old.product_batches[i]
                                    ELSE [old.product_batches[i] EXCEPT
                                            !.stock = IF @ >= q THEN @ - q ELSE 0]
                    /\ db'.suppliers[original.supplier_id] =
                          old.suppliers[original.supplier_id] - q * line.purchase_price]_vars

\* a return of three units against a batch of two has made all its writes: the
\* batch is empty and the supplier's balance has gone down by three unit costs
C28_Witness ==
    \E k \in calls[Cashier] :
        /\ ReturnsPurchase(k) /\ k.pc = "then"
        /\ k.returnInvoice.items[1].quantity = 3
        /\ k.before.db.product_batches[1].stock = 2
        /\ db.product_batches[1].stock = 0
        /\ db.suppliers["s1"] = k.before.db.suppliers["s1"] - 3

\* ------------------------------------------------------------ C29
\* C29: in every reachable state every line of every client's cart has a
\* quantity of at least 1.
C29_CartQuantityPositive ==
    \A c \in Clients : \A i \in 1..Len(state[c].cart) : state[c].cart[i].quantity >= 1

\* ------------------------------------------------------------ C30
\* the employees of the tables d whose salary exceeds what they have drawn
unpaid(d) == {e \in DOMAIN d.employees : monthlySalary[e] - d.employees[e] > 0}

\* C30: when the call of a payroll run resolves, the store holds exactly one new
\* ledger row for each employee whose monthlySalary - balance was positive, a
\* salary_payment of that amount, and no other new ledger row, one new expense of
\* category salary whose amount is the sum of those payments, and balance 0 for
\* every employee; a run with no such employee returns failure, issues no call
\* and changes nothing in the store or in the client's state.
C30_Payroll ==
    [][\A c \in Clients :
          /\ \A k \in calls[c] :
                (Resolves(c, k) /\ k.kind = "processPayroll")
                   => LET old == k.before.db
                          rows == db'.payroll_transactions \ old.payroll_transactions
                      IN /\ unpaid(old) # {}
                         /\ old.payroll_transactions \subseteq db'.payroll_transactions
                         /\ Cardinality(rows) = Cardinality(unpaid(old))
                         /\ \A e \in unpaid(old) :
                               \E t \in rows :
                                  /\ t.employee_id = e
                                  /\ t.type = "salary_payment"
                                  /\ t.amount = monthlySalary[e] - old.employees[e]
                         /\ \E x \in db'.expenses :
                               /\ db'.expenses = old.expenses \cup {x}
                               /\ x \notin old.expenses
                               /\ x.category = "salary"
                               /\ x.amount = sumOfAmounts(rows)
                         /\ \A e \in DOMAIN db'.employees : db'.employees[e] = 0
          /\ (ret'.op = "processAndPaySalaries" /\ ret'.client = c /\ ret' # ret
                /\ unpaid([employees |-> state[c].employees]) = {})
                   => /\ ~ret'.success
                      /\ UNCHANGED <<db, state, calls>>
          /\ (ret'.op = "processAndPaySalaries" /\ ret'.client = c /\ ret' # ret
                /\ unpaid([employees |-> state[c].employees]) # {})
                   => ret'.success /\ calls'[c] # calls[c]]_vars

\* a run that paid e1 the salary less an advance of 1 and e2 the full salary has
\* made all its writes
C30_Witness ==
    \E k \in calls[Cashier] :
        /\ k.kind = "processPayroll" /\ k.pc = "then"
        /\ k.before.db.employees["e1"] = 1
        /\ k.before.db.employees["e2"] = 0
        /\ Cardinality(db.payroll_transactions \ k.before.db.payroll_transactions) = 2
        /\ \E x \in db.expenses : x.amount = 2
        /\ \A e \in Staff : db.employees[e] = 0

\* a run was refused because every employee has drawn the salary or more
C30_WitnessRefused ==
    /\ ret.op = "processAndPaySalaries" /\ ~ret.success
    /\ \A e \in Staff : state[Cashier].employees[e] >= monthlySalary[e]

====
